---- MODULE Spec2Model ----
(***************************************************************************)
(* Model of the multi-provider completion router of convoscope             *)
(* (src/services/llm_service.py): the provider table with its computed      *)
(* availability flags, get_completion with its validation and its retry     *)
(* loop, and get_completion_with_fallback; and of the comparison harness    *)
(* (src/experiments, render_compare_view and render_results_view of         *)
(* run_chat.py): collect_comparisons, the JSONL evaluation log and the      *)
(* merge of the latest scores.                                              *)
(*                                                                          *)
(* Strings that the code inspects are sequences: an environment value is a  *)
(* sequence of characters, an exception message is a sequence of words.     *)
(***************************************************************************)
EXTENDS Integers, Sequences, FiniteSets, TLC

VARIABLES
    env,          \* os.environ restricted to the providers' env_key variables
    available,    \* PROVIDERS[p].available (class-level table, shared)
    blankAtInit,  \* history: was env[p] unset or blank when __init__ last ran
    pc,           \* "idle" | "retry" (inside the for loop) | "done"
    op,           \* "none" | "complete" | "fallback": the operation in progress
    phase,        \* "none" | "primary" | "fallback": which get_completion call
    cur,          \* arguments of the running get_completion call
    fb,           \* fallback arguments of get_completion_with_fallback
    attempt,      \* loop variable of `for attempt in range(max_retries)`
    trace,        \* history: outbound completion() calls and time.sleep() calls
    invoked,      \* history: the get_completion invocations of the operation
    outcome,      \* outcome of the get_completion call of each phase
    ret,          \* outcome of the operation as its caller sees it
    pricing,      \* experiments/pricing.yaml: absent, or its "models" table
    cmpPc,        \* collect_comparisons: "idle" | "collect" | "shuffle" | "done"
    cmpArgs,      \* its arguments: prompt_text, combos, blind, priming_text
    cmpItems,     \* its items list
    cmpRet,       \* what it returns or raises
    lastOrder,    \* history: the shuffled order of the previous invocation
    log,          \* experiments/results.jsonl: whether it exists, and its content
    writers,      \* the append_jsonl call in progress in each thread of control
    appended,     \* history: the records of the append_jsonl calls that returned
    rows,         \* the result of the last read_jsonl, until the log changes
    now,          \* the clock that datetime.utcnow() reads
    session,      \* st.session_state["compare_last_run"]
    cache,        \* experiments/default_compare_cache.json
    appRet,       \* how the last handler of the compare view ended
    ops,          \* history: the number of handlers run
    mResults,     \* results viewer: the rows of results_df
    mScores,      \* results viewer: the rows of scores_df, in log order
    tiesKeep,     \* which of the rows of equal timestamp the sort leaves last
    merged,       \* the result of the last merge, until a score is appended
    before,       \* history: the rows of the merge before the last append
    added,        \* history: the score appended since then
    catalog,      \* the prompt catalog, experiments/prompts.yaml
    joined,       \* results viewer: the tags found for the prompt of a run
    est,          \* a text and its token estimate
    convFile,     \* conversation store: the file of a conversation
    convBackup,   \* conversation store: its .backup file
    convRet,      \* what the last save_conversation returned
    convPrev,     \* history: convFile before the last save_conversation
    chat          \* chat flow: the calls and the answer of the last question

vars == <<env, available, blankAtInit, pc, op, phase, cur, fb, attempt,
          trace, invoked, outcome, ret,
          pricing, cmpPc, cmpArgs, cmpItems, cmpRet, lastOrder,
          log, writers, appended, rows,
          now, session, cache, appRet, ops,
          mResults, mScores, tiesKeep, merged, before, added,
          catalog, joined, est, convFile, convBackup, convRet, convPrev, chat>>

cmpVars == <<pricing, cmpPc, cmpArgs, cmpItems, cmpRet, lastOrder>>

logVars == <<log, writers, appended, rows>>

uiVars == <<now, session, cache, appRet, ops>>

mergeVars == <<mResults, mScores, tiesKeep, merged, before, added>>

\* What the router and the registry never touch.
sideVars == <<catalog, joined, est, convFile, convBackup, convRet, convPrev, chat>>

appVars == <<cmpVars, logVars, uiVars, mergeVars, sideVars>>

routerVars == <<pc, op, phase, cur, fb, attempt, trace, invoked, outcome, ret>>

(***************************************************************************)
(* Bounds of the model.                                                     *)
(***************************************************************************)
MaxRetriesBound == 4   \* max_retries arguments range over 0..MaxRetriesBound
MaxMsgLen == 2         \* exception messages have 1..MaxMsgLen words

(***************************************************************************)
(* The provider table.                                                      *)
(***************************************************************************)
ProviderOrder == <<"openai", "anthropic", "google">>

ProviderKeys == {ProviderOrder[i] : i \in 1..Len(ProviderOrder)}

PROVIDERS ==
    [p \in ProviderKeys |->
        CASE p = "openai" ->
               [name |-> "openai",
                models |-> <<"gpt-4o-mini", "gpt-4o", "gpt-3.5-turbo", "gpt-4-turbo">>,
                env_key |-> "OPENAI_API_KEY"]
          [] p = "anthropic" ->
               [name |-> "anthropic",
                models |-> <<"claude-3-5-sonnet-20241022", "claude-3-haiku-20240307">>,
                env_key |-> "ANTHROPIC_API_KEY"]
          [] p = "google" ->
               [name |-> "google",
                models |-> <<"gemini-2.5-flash", "gemini-2.5-pro">>,
                env_key |-> "GEMINI_API_KEY"]]

Range(s) == {s[i] : i \in 1..Len(s)}

(***************************************************************************)
(* Environment values: unset (os.getenv gives None) or a string.            *)
(***************************************************************************)
NoValue == <<"None">>

EnvValues == {NoValue, <<>>, <<" ">>, <<" ", "k">>}

IsSpace(c) == c \in {" ", "\n", "\t"}

RECURSIVE LStrip(_)
LStrip(s) == IF s # <<>> /\ IsSpace(Head(s)) THEN LStrip(Tail(s)) ELSE s

RECURSIVE RStrip(_)
RStrip(s) ==
    IF s # <<>> /\ IsSpace(s[Len(s)]) THEN RStrip(SubSeq(s, 1, Len(s) - 1)) ELSE s

Strip(s) == RStrip(LStrip(s))

\* Variant: bool(api_key), the value is not stripped
KeyPresentNoStrip(api_key) == api_key # NoValue /\ api_key # <<>>

\* bool(api_key and api_key.strip())
KeyPresent(api_key) ==
    IF api_key = NoValue THEN FALSE
    ELSE IF api_key = <<>> THEN FALSE
    ELSE Strip(api_key) # <<>>

CheckProviderAvailability(e) == [p \in ProviderKeys |-> KeyPresent(e[p])]

\* The environment variable is unset or holds only whitespace.
IsBlank(v) == v = NoValue \/ \A i \in 1..Len(v) : v[i] = " "

GetAvailableProviders == {p \in ProviderKeys : available[p]}

GetAvailableModels(provider_name) ==
    IF provider_name \notin ProviderKeys THEN <<>>
    ELSE IF available[provider_name] THEN PROVIDERS[provider_name].models
    ELSE <<>>

(***************************************************************************)
(* Exception messages of the outbound call.                                 *)
(***************************************************************************)
Words == {"Rate Limit", "API Key", "unauthorized", "Timeout", "Boom"}

LowerWord(w) ==
    CASE w = "Rate Limit" -> "rate limit"
      [] w = "API Key" -> "api key"
      [] w = "Timeout" -> "timeout"
      [] w = "Boom" -> "boom"
      [] OTHER -> w

\* str(e).lower()
Lower(msg) == [i \in 1..Len(msg) |-> LowerWord(msg[i])]

\* needle in text
Contains(text, needle) == \E i \in 1..Len(text) : text[i] = needle

\* text contains part as a contiguous piece
ContainsSeq(text, part) ==
    \E i \in 0..(Len(text) - Len(part)) :
        SubSeq(text, i + 1, i + Len(part)) = part

Messages == UNION {[1..n -> Words] : n \in 1..MaxMsgLen}

Texts == {"Test response", "Other response"}

CallOutcomes ==
    [ok : {TRUE}, text : Texts, msg : {<<>>}]
        \cup [ok : {FALSE}, text : {""}, msg : Messages]

\* Variant: a timeout is looked for before a rate limit
ClassifyTimeoutFirst(msg) ==
    LET error_msg == Lower(msg) IN
    IF Contains(error_msg, "timeout") THEN "timeout"
    ELSE IF Contains(error_msg, "rate limit") THEN "rate_limit"
    ELSE IF Contains(error_msg, "api key") \/ Contains(error_msg, "unauthorized")
         THEN "credential"
    ELSE "other"

\* The branch of the except clause that handles a message.
Classify(msg) ==
    LET error_msg == Lower(msg) IN
    IF Contains(error_msg, "rate limit") THEN "rate_limit"
    ELSE IF Contains(error_msg, "api key") \/ Contains(error_msg, "unauthorized")
         THEN "credential"
    ELSE IF Contains(error_msg, "timeout") THEN "timeout"
    ELSE "other"

(***************************************************************************)
(* Outcomes of get_completion.                                              *)
(***************************************************************************)
NoOutcome == [kind |-> "none", error |-> "", text |-> "", msg |-> <<>>]

Returned(t) == [kind |-> "return", error |-> "", text |-> t, msg |-> <<>>]

ReturnedNone == [kind |-> "return_none", error |-> "", text |-> "", msg |-> <<>>]

Raised(e, m) == [kind |-> "raise", error |-> e, text |-> "", msg |-> m]

NoArgs == [provider |-> "", model |-> "", max_retries |-> 0, model_name |-> <<>>]

NoFallback == [provider |-> "", model |-> ""]

DefaultMaxRetries == 3

\* Variant: the model is checked before the provider's availability
ValidateModelFirst(provider, model) ==
    IF provider \notin ProviderKeys
    THEN Raised("UnknownProvider", <<"Unknown provider:", provider>>)
    ELSE IF model \notin Range(PROVIDERS[provider].models)
    THEN Raised("ModelNotSupported",
                <<"Model", model, "not available for provider", provider,
                  "Available models:">> \o PROVIDERS[provider].models)
    ELSE IF ~available[provider]
    THEN Raised("ProviderUnavailable",
                <<"Provider", provider, "is not available. Please set the",
                  PROVIDERS[provider].env_key, "environment variable.">>)
    ELSE NoOutcome

\* Lines 100-117: the error of the first failing check, or NoOutcome.
Validate(provider, model) ==
    IF provider \notin ProviderKeys
    THEN Raised("UnknownProvider", <<"Unknown provider:", provider>>)
    ELSE IF ~available[provider]
    THEN Raised("ProviderUnavailable",
                <<"Provider", provider, "is not available. Please set the",
                  PROVIDERS[provider].env_key, "environment variable.">>)
    ELSE IF model \notin Range(PROVIDERS[provider].models)
    THEN Raised("ModelNotSupported",
                <<"Model", model, "not available for provider", provider,
                  "Available models:">> \o PROVIDERS[provider].models)
    ELSE NoOutcome

\* Lines 119-125
ModelName(provider, model) ==
    IF provider = "google" THEN <<"gemini", model>> ELSE <<provider, model>>

\* completion(model=model_name, ...) ended in kind k (with response text t)
CallEvent(ph, name, k, t) ==
    [ev |-> "call", phase |-> ph, model |-> name, kind |-> k, text |-> t, secs |-> 0]

\* time.sleep(s)
SleepEvent(ph, s) ==
    [ev |-> "sleep", phase |-> ph, model |-> <<>>, kind |-> "", text |-> "", secs |-> s]

RECURSIVE Pow2(_)
Pow2(n) == IF n = 0 THEN 1 ELSE 2 * Pow2(n - 1)

\* Variant: wait_time = 2 ** attempt
BackoffWaitNoDouble(a) == Pow2(a)

\* wait_time = (2 ** attempt) * 2
BackoffWait(a) == Pow2(a) * 2

OtherWait == 1

(***************************************************************************)
(* The branches of one iteration of the retry loop (lines 127-161).  Each   *)
(* gives the time.sleep() calls it makes and how it leaves the iteration:   *)
(*   next = "continue": the loop goes on with attempt + 1                   *)
(*   next = "end": get_completion ends with `res`                           *)
(***************************************************************************)
Continue(sleeps) == [sleeps |-> sleeps, next |-> "continue", res |-> NoOutcome]

End(res) == [sleeps |-> <<>>, next |-> "end", res |-> res]

\* Variant: the response is not returned from inside the loop
OnSuccessNotReturned(text) == Continue(<<>>)

\* Line 135: return response.choices[0].message.content
OnSuccess(text) == End(Returned(text))

\* Lines 141-146
OnRateLimit(a, args, ph) ==
    IF a < args.max_retries - 1
    THEN Continue(<<SleepEvent(ph, BackoffWait(a))>>)
    ELSE End(Raised("RateLimited", <<"Rate limit exceeded for", args.provider>>))

\* Variant: a credential failure is retried like a timeout
OnCredentialRetried(a, args, ph) ==
    IF a < args.max_retries - 1
    THEN Continue(<<>>)
    ELSE End(Raised("InvalidCredential", <<"Invalid API key for", args.provider>>))

\* Lines 148-149
OnCredential(a, args, ph) ==
    End(Raised("InvalidCredential", <<"Invalid API key for", args.provider>>))

\* Variant: a timeout backs off like a rate limit
OnTimeoutWithBackoff(a, args, ph) ==
    IF a < args.max_retries - 1
    THEN Continue(<<SleepEvent(ph, BackoffWait(a))>>)
    ELSE End(Raised("RequestTimeout", <<"Request timeout for", args.provider>>))

\* Lines 151-154
OnTimeout(a, args, ph) ==
    IF a < args.max_retries - 1
    THEN Continue(<<>>)
    ELSE End(Raised("RequestTimeout", <<"Request timeout for", args.provider>>))

\* Variant: the lowered error_msg is wrapped instead of str(e)
OnOtherLowered(a, args, ph, msg) ==
    IF a = args.max_retries - 1
    THEN End(Raised("UpstreamError",
                    <<"Failed after", ToString(args.max_retries), "attempts:">> \o Lower(msg)))
    ELSE Continue(<<SleepEvent(ph, OtherWait)>>)

\* Lines 156-161
OnOther(a, args, ph, msg) ==
    IF a = args.max_retries - 1
    THEN End(Raised("UpstreamError",
                    <<"Failed after", ToString(args.max_retries), "attempts:">> \o msg))
    ELSE Continue(<<SleepEvent(ph, OtherWait)>>)

\* One iteration on call outcome o: the outbound call, then the branch taken.
Iteration(o, a, args, ph) ==
    LET kind == IF o.ok THEN "ok" ELSE Classify(o.msg)
        branch == CASE kind = "ok" -> OnSuccess(o.text)
                    [] kind = "rate_limit" -> OnRateLimit(a, args, ph)
                    [] kind = "credential" -> OnCredential(a, args, ph)
                    [] kind = "timeout" -> OnTimeout(a, args, ph)
                    [] OTHER -> OnOther(a, args, ph, o.msg)
    IN [events |-> <<CallEvent(ph, args.model_name, kind, o.text)>> \o branch.sleeps,
        next |-> branch.next,
        res |-> branch.res]

(***************************************************************************)
(* Start of a get_completion call: validation (lines 100-117), then the     *)
(* loop is entered unless range(max_retries) is empty (line 163).           *)
(***************************************************************************)
StartCall(provider, model, r) ==
    LET v == Validate(provider, model)
        args == [provider |-> provider, model |-> model, max_retries |-> r,
                 model_name |-> ModelName(provider, model)]
    IN
    IF v # NoOutcome THEN [running |-> FALSE, args |-> args, res |-> v]
    ELSE IF r <= 0 THEN [running |-> FALSE, args |-> args, res |-> ReturnedNone]
    ELSE [running |-> TRUE, args |-> args, res |-> NoOutcome]

\* Variant: the fallback call is not guarded by try/except
FallbackResultUnguarded(res) == res

\* Lines 197-202: the fallback call's text, or None when it raises
FallbackResult(res) == IF res.kind = "raise" THEN ReturnedNone ELSE res

\* Variant: the fallback is tried whatever the primary call did
NeedsFallbackAlways(opn, ph, res) == opn = "fallback" /\ ph = "primary"

\* Lines 189-194: the primary call raised LLMServiceError, so the fallback is tried
NeedsFallback(opn, ph, res) == opn = "fallback" /\ ph = "primary" /\ res.kind = "raise"

Invocation(ph, provider, model) == [phase |-> ph, provider |-> provider, model |-> model]

(***************************************************************************)
(* The get_completion call of phase ph ends with res while operation opn    *)
(* runs.  In get_completion_with_fallback a raise of the primary call is    *)
(* caught (lines 193-194) and the fallback call starts (lines 197-200).     *)
(***************************************************************************)
EndCall(opn, ph, res, out, inv, fbargs) ==
    IF NeedsFallback(opn, ph, res)
    THEN LET s == StartCall(fbargs.provider, fbargs.model, DefaultMaxRetries) IN
         /\ phase' = "fallback"
         /\ cur' = s.args
         /\ attempt' = 0
         /\ invoked' = Append(inv, Invocation("fallback", fbargs.provider, fbargs.model))
         /\ outcome' = [primary |-> res, fallback |-> s.res]
         /\ IF s.running
            THEN pc' = "retry" /\ ret' = NoOutcome
            ELSE pc' = "done" /\ ret' = FallbackResult(s.res)
    ELSE /\ pc' = "done"
         /\ phase' = ph
         /\ invoked' = inv
         /\ outcome' = [out EXCEPT ![ph] = res]
         /\ ret' = IF opn = "fallback" /\ ph = "fallback" THEN FallbackResult(res) ELSE res
         /\ UNCHANGED <<cur, attempt>>

NoOutcomes == [primary |-> NoOutcome, fallback |-> NoOutcome]

(***************************************************************************)
(* Actions                                                                  *)
(***************************************************************************)
\* The process environment changes (os.environ is ambient state).
SetEnv(p, v) ==
    /\ pc = "idle"
    /\ env[p] # v
    /\ env' = [env EXCEPT ![p] = v]
    /\ UNCHANGED <<available, blankAtInit, routerVars, appVars>>

\* LLMService(): __init__ runs _check_provider_availability on the shared table.
Construct ==
    /\ pc = "idle"
    /\ available' = CheckProviderAvailability(env)
    /\ blankAtInit' = [p \in ProviderKeys |-> IsBlank(env[p])]
    /\ UNCHANGED <<env, routerVars, appVars>>

\* get_completion(provider, model, messages, temperature, max_retries)
StartComplete(provider, model, r) ==
    /\ pc = "idle"
    /\ op' = "complete"
    /\ fb' = NoFallback
    /\ trace' = <<>>
    /\ invoked' = <<Invocation("primary", provider, model)>>
    /\ LET s == StartCall(provider, model, r) IN
       IF s.running
       THEN /\ pc' = "retry"
            /\ phase' = "primary"
            /\ cur' = s.args
            /\ attempt' = 0
            /\ outcome' = NoOutcomes
            /\ ret' = NoOutcome
       ELSE /\ cur' = s.args
            /\ attempt' = 0
            /\ pc' = "done"
            /\ phase' = "primary"
            /\ outcome' = [NoOutcomes EXCEPT !.primary = s.res]
            /\ ret' = s.res
    /\ UNCHANGED <<env, available, blankAtInit, appVars>>

\* get_completion_with_fallback(messages, primary_provider, primary_model,
\*                              fallback_provider, fallback_model)
StartFallback(pp, pm, fp, fm) ==
    /\ pc = "idle"
    /\ op' = "fallback"
    /\ fb' = [provider |-> fp, model |-> fm]
    /\ trace' = <<>>
    /\ LET s == StartCall(pp, pm, DefaultMaxRetries) IN
       IF s.running
       THEN /\ pc' = "retry"
            /\ phase' = "primary"
            /\ cur' = s.args
            /\ attempt' = 0
            /\ invoked' = <<Invocation("primary", pp, pm)>>
            /\ outcome' = NoOutcomes
            /\ ret' = NoOutcome
       ELSE EndCall("fallback", "primary", s.res, NoOutcomes,
                    <<Invocation("primary", pp, pm)>>, [provider |-> fp, model |-> fm])
    /\ UNCHANGED <<env, available, blankAtInit, appVars>>

\* One iteration of the retry loop: the outbound call ends with outcome o.
Attempt(o) ==
    /\ pc = "retry"
    /\ LET it == Iteration(o, attempt, cur, phase) IN
       /\ trace' = trace \o it.events
       /\ IF it.next = "continue"
          THEN IF attempt + 1 < cur.max_retries
               THEN /\ attempt' = attempt + 1
                    /\ UNCHANGED <<pc, phase, cur, invoked, outcome, ret>>
               ELSE EndCall(op, phase, ReturnedNone, outcome, invoked, fb)
          ELSE EndCall(op, phase, it.res, outcome, invoked, fb)
    /\ UNCHANGED <<env, available, blankAtInit, op, fb, appVars>>

\* The caller takes the result; the service is ready for the next operation.
Return ==
    /\ pc = "done"
    /\ pc' = "idle"
    /\ op' = "none"
    /\ phase' = "none"
    /\ cur' = NoArgs
    /\ fb' = NoFallback
    /\ attempt' = 0
    /\ trace' = <<>>
    /\ invoked' = <<>>
    /\ outcome' = NoOutcomes
    /\ ret' = NoOutcome
    /\ UNCHANGED <<env, available, blankAtInit, appVars>>

(***************************************************************************)
(* The comparison collector (src/experiments/compare.py, metrics.py).       *)
(* An optional value is a sequence: <<>> is None, <<v>> is the value v.     *)
(* Money is counted in millionths of a dollar, so that round(x, 6) is a     *)
(* rounding to an integer.  Latencies are not modelled.                     *)
(***************************************************************************)
None == <<>>

Some(v) == <<v>>

Max(a, b) == IF a >= b THEN a ELSE b

\* Python's round(): num/den rounded to the nearest integer, ties to even
RoundHalfEven(num, den) ==
    LET q == num \div den
        r == num % den
    IN IF 2 * r < den THEN q
       ELSE IF 2 * r > den THEN q + 1
       ELSE IF q % 2 = 0 THEN q ELSE q + 1

\* Variant: no clamp at 1
EstimateTokensUnclamped(n) == IF n = 0 THEN 0 ELSE RoundHalfEven(n, 4)

\* metrics.estimate_tokens, of a text of n characters
EstimateTokensOfLen(n) == IF n = 0 THEN 0 ELSE Max(1, RoundHalfEven(n, 4))

EstimateTokens(text) == EstimateTokensOfLen(Len(text))

\* experiments/pricing.yaml is absent, or holds a "models" table (which may
\* be empty) from <vendor-key>/<model> to rates per 1000 tokens
NoPricingFile == [exists |-> FALSE, models |-> <<>>]

PricingFile(models) == [exists |-> TRUE, models |-> models]

\* metrics.compose_model_key
ComposeModelKey(provider, model) ==
    IF provider = "google" THEN <<"gemini", model>> ELSE <<provider, model>>

\* metrics.estimate_cost_usd with metrics.load_pricing: the cost, or the
\* error that open() raises when the pricing file does not exist
EstimateCostUsd(provider, model, input_tokens, output_tokens) ==
    IF ~pricing.exists
    THEN [ok |-> FALSE, cost |-> 0, error |-> "FileNotFoundError"]
    ELSE LET key == ComposeModelKey(provider, model) IN
         IF key \notin DOMAIN pricing.models
         THEN [ok |-> TRUE, cost |-> 0, error |-> ""]
         ELSE LET info == pricing.models[key] IN
              [ok |-> TRUE,
               cost |-> RoundHalfEven(input_tokens * info.input_per_1k
                                        + output_tokens * info.output_per_1k, 1000),
               error |-> ""]

BLIND_LABELS ==
    <<"A", "B", "C", "D", "E", "F", "G", "H", "I", "J", "K", "L", "M",
      "N", "O", "P", "Q", "R", "S", "T", "U", "V", "W", "X", "Y", "Z">>

\* Outcomes of the outbound call that a comparison is run against
CompareCallOutcomes ==
    {[ok |-> TRUE, text |-> "Test response", msg |-> <<>>],
     [ok |-> FALSE, text |-> "", msg |-> <<"Rate Limit">>]}

\* The ways service.get_completion(provider, model, messages, temperature)
\* can end: with the validation error, or at the end of an iteration of its
\* loop.
CompletionResults(provider, model) ==
    LET s == StartCall(provider, model, DefaultMaxRetries) IN
    IF ~s.running THEN {s.res}
    ELSE LET its == {Iteration(o, a, s.args, "primary") :
                        o \in CompareCallOutcomes, a \in 0..(DefaultMaxRetries - 1)}
         IN {it.res : it \in {i \in its : i.next = "end"}}

\* The length of the text whose tokens are the input tokens of every item:
\* the contents of the messages of lines 46-49, joined by spaces
JoinedLen(args) ==
    IF args.priming_text = "" THEN Len(args.prompt_text)
    ELSE Len(args.priming_text) + 1 + Len(args.prompt_text)

\* Lines 55-62: the status of an item whose router call ended with res
ItemStatus(res) == IF res.kind = "raise" THEN "error" ELSE "ok"

\* Lines 53-81: the item of a combo whose router call ended with res, when
\* the estimate of its cost is cost.  blind_label is set by the labelling.
Item(combo, res, input_tokens, output_tokens, cost) ==
    [provider |-> combo.provider,
     model |-> combo.model,
     input_tokens_est |-> input_tokens,
     output_tokens_est |-> output_tokens,
     estimated_cost_usd |-> cost,
     response_text |-> IF res.kind = "return" THEN res.text ELSE "",
     status |-> ItemStatus(res),
     error |-> IF res.kind = "raise" THEN Some(res.msg) ELSE None,
     blind_label |-> ""]

NoCompareArgs == [prompt_text |-> "", combos |-> <<>>, blind |-> FALSE, priming_text |-> ""]

NoCompareRet ==
    [kind |-> "none", results |-> <<>>, mapping |-> <<>>, blind |-> FALSE,
     prompt_text |-> "", error |-> "", order |-> <<>>]

\* Variant: the shuffle is seeded, so it always yields the same order
ShuffleOrdersSeeded(n) == {[i \in 1..n |-> i]}

\* Lines 84-85: the orders random.shuffle can leave in list(range(n)); here
\* positions count from 1
ShuffleOrders(n) ==
    {q \in [1..n -> 1..n] : \A i \in 1..n : \E j \in 1..n : q[j] = i}

\* Variant: the labels follow the collection order, not the shuffled one
LabelledUnshuffled(items, order) ==
    [i \in 1..Len(items) |-> [items[order[i]] EXCEPT !.blind_label = BLIND_LABELS[order[i]]]]

\* Lines 86-90: the items in the shuffled order, each with its label
Labelled(items, order) ==
    [i \in 1..Len(items) |-> [items[order[i]] EXCEPT !.blind_label = BLIND_LABELS[i]]]

\* Lines 88-92: the mapping from label to provider and model (a later item
\* with the same label would overwrite an earlier one)
LabelMap(ordered) ==
    [l \in {ordered[i].blind_label : i \in 1..Len(ordered)} |->
        LET i == CHOOSE j \in 1..Len(ordered) :
                    /\ ordered[j].blind_label = l
                    /\ \A k \in 1..Len(ordered) : ordered[k].blind_label = l => k <= j
        IN [provider |-> ordered[i].provider, model |-> ordered[i].model]]

StartCompare(prompt_text, combos, blind, priming_text) ==
    /\ cmpPc = "idle"
    /\ pc = "idle"
    /\ cmpArgs' = [prompt_text |-> prompt_text, combos |-> combos,
                   blind |-> blind, priming_text |-> priming_text]
    /\ cmpItems' = <<>>
    /\ cmpRet' = NoCompareRet
    /\ cmpPc' = IF combos = <<>> THEN "shuffle" ELSE "collect"
    /\ UNCHANGED <<sideVars, mergeVars, env, available, blankAtInit, routerVars, pricing, lastOrder, logVars, uiVars>>

\* Lines 54-81: what one iteration of the loop does for a combo whose
\* router call ended with res: the item, or the error of the cost estimate
Collected(combo, res, args) ==
    LET text == IF res.kind = "return" THEN res.text ELSE ""
        input_tokens == EstimateTokensOfLen(JoinedLen(args))
        output_tokens == EstimateTokens(text)
        cost == EstimateCostUsd(combo.provider, combo.model, input_tokens, output_tokens)
    IN [ok |-> cost.ok, error |-> cost.error,
        item |-> Item(combo, res, input_tokens, output_tokens, cost.cost)]

CompareRaised(error) == [NoCompareRet EXCEPT !.kind = "raise", !.error = error]

\* Lines 83-99: what collect_comparisons returns when the shuffle leaves
\* order, or the error of a label that does not exist
CompareReturn(items, order, args) ==
    IF Len(items) > Len(BLIND_LABELS) THEN CompareRaised("IndexError")
    ELSE LET ordered == Labelled(items, order) IN
         [kind |-> "return", results |-> ordered, mapping |-> LabelMap(ordered),
          blind |-> args.blind, prompt_text |-> args.prompt_text, error |-> "",
          order |-> order]

\* One iteration of the loop of lines 53-81, for the next combo
CollectItem(res) ==
    /\ cmpPc = "collect"
    /\ LET combo == cmpArgs.combos[Len(cmpItems) + 1]
           c == Collected(combo, res, cmpArgs)
       IN /\ res \in CompletionResults(combo.provider, combo.model)
          /\ IF c.ok
             THEN /\ cmpItems' = Append(cmpItems, c.item)
                  /\ cmpPc' = IF Len(cmpItems) + 1 = Len(cmpArgs.combos)
                              THEN "shuffle" ELSE "collect"
                  /\ cmpRet' = cmpRet
             ELSE /\ cmpItems' = cmpItems
                  /\ cmpPc' = "done"
                  /\ cmpRet' = CompareRaised(c.error)
    /\ UNCHANGED <<sideVars, mergeVars, env, available, blankAtInit, routerVars, pricing, cmpArgs, lastOrder, logVars, uiVars>>

\* Lines 83-99: shuffle, label, build the mapping, return
FinishCompare(order) ==
    /\ cmpPc = "shuffle"
    /\ order \in ShuffleOrders(Len(cmpItems))
    /\ cmpPc' = "done"
    /\ cmpRet' = CompareReturn(cmpItems, order, cmpArgs)
    /\ UNCHANGED <<sideVars, mergeVars, env, available, blankAtInit, routerVars, pricing, cmpArgs,
                   cmpItems, lastOrder, logVars, uiVars>>

\* The lists of items that the loop of lines 53-81 can collect for combos
RECURSIVE ItemLists(_, _)
ItemLists(combos, args) ==
    IF combos = <<>> THEN {<<>>}
    ELSE {<<Collected(Head(combos), res, args).item>> \o rest :
            res \in CompletionResults(Head(combos).provider, Head(combos).model),
            rest \in ItemLists(Tail(combos), args)}

\* collect_comparisons as a whole: the ways a call with these arguments ends
CollectComparisons(args) ==
    IF args.combos # <<>> /\ ~pricing.exists THEN {CompareRaised("FileNotFoundError")}
    ELSE {CompareReturn(items, order, args) :
            items \in ItemLists(args.combos, args),
            order \in ShuffleOrders(Len(args.combos))}

\* The caller takes the result
ReturnCompare ==
    /\ cmpPc = "done"
    /\ cmpPc' = "idle"
    /\ lastOrder' = IF cmpRet.kind = "return" THEN cmpRet.order ELSE lastOrder
    /\ cmpArgs' = NoCompareArgs
    /\ cmpItems' = <<>>
    /\ cmpRet' = NoCompareRet
    /\ UNCHANGED <<sideVars, mergeVars, env, available, blankAtInit, routerVars, pricing, logVars, uiVars>>

CompareIdle ==
    /\ cmpPc = "idle"
    /\ cmpArgs = NoCompareArgs
    /\ cmpItems = <<>>
    /\ cmpRet = NoCompareRet
    /\ lastOrder = <<>>

(***************************************************************************)
(* JSON (src/experiments/io.py: json.dumps, json.loads).  A text is a       *)
(* sequence of atoms: the characters that JSON gives a meaning to, each an  *)
(* atom of its own, and runs of other characters.  A JSON value is a tagged *)
(* record: a string (of atoms), an integer, null, a boolean, a list of      *)
(* values, or a map, which is the sequence of its [k, v] members in the     *)
(* order of the dict.                                                       *)
(***************************************************************************)
Q == "\""

BS == "\\"

LF == "\n"

JStr(s) == [t |-> "str", s |-> s, n |-> 0, e |-> <<>>]

JInt(n) == [t |-> "int", s |-> <<>>, n |-> n, e |-> <<>>]

JNull == [t |-> "null", s |-> <<>>, n |-> 0, e |-> <<>>]

JBool(b) == [t |-> "bool", s |-> <<>>, n |-> IF b THEN 1 ELSE 0, e |-> <<>>]

JList(e) == [t |-> "list", s |-> <<>>, n |-> 0, e |-> e]

JMap(e) == [t |-> "map", s |-> <<>>, n |-> 0, e |-> e]

Member(k, v) == [k |-> k, v |-> v]

MaxInt == 99

NumberAtoms == {ToString(n) : n \in 0..MaxInt}

\* Variant: a newline inside a string is written as it is
EscapeAtomRawNewline(c) ==
    IF c = Q THEN <<BS, Q>>
    ELSE IF c = BS THEN <<BS, BS>>
    ELSE <<c>>

\* json.dumps of one character of a string
EscapeAtom(c) ==
    IF c = Q THEN <<BS, Q>>
    ELSE IF c = BS THEN <<BS, BS>>
    ELSE IF c = LF THEN <<BS, "n">>
    ELSE <<c>>

RECURSIVE DumpsStr(_)
DumpsStr(s) == IF s = <<>> THEN <<>> ELSE EscapeAtom(Head(s)) \o DumpsStr(Tail(s))

RECURSIVE Dumps(_), DumpsMembers(_), DumpsElems(_)
\* json.dumps(value, ensure_ascii=False), with its separators ", " and ": "
Dumps(v) ==
    CASE v.t = "str" -> <<Q>> \o DumpsStr(v.s) \o <<Q>>
      [] v.t = "int" -> <<ToString(v.n)>>
      [] v.t = "null" -> <<"null">>
      [] v.t = "bool" -> <<IF v.n = 1 THEN "true" ELSE "false">>
      [] v.t = "list" -> <<"[">> \o DumpsElems(v.e) \o <<"]">>
      [] v.t = "map" -> <<"{">> \o DumpsMembers(v.e) \o <<"}">>

DumpsMembers(e) ==
    IF e = <<>> THEN <<>>
    ELSE <<Q>> \o DumpsStr(Head(e).k) \o <<Q, ":", " ">> \o Dumps(Head(e).v)
         \o (IF Tail(e) = <<>> THEN <<>> ELSE <<",", " ">> \o DumpsMembers(Tail(e)))

DumpsElems(e) ==
    IF e = <<>> THEN <<>>
    ELSE Dumps(Head(e))
         \o (IF Tail(e) = <<>> THEN <<>> ELSE <<",", " ">> \o DumpsElems(Tail(e)))

\* The result of a parsing step: the value read and the position after it
Parsed(v, i) == [ok |-> TRUE, v |-> v, i |-> i]

NotParsed == [ok |-> FALSE, v |-> JNull, i |-> 0]

RECURSIVE SkipWs(_, _)
SkipWs(s, i) == IF i <= Len(s) /\ IsSpace(s[i]) THEN SkipWs(s, i + 1) ELSE i

\* The string whose opening quote is just before position i
RECURSIVE ParseString(_, _, _)
ParseString(s, i, acc) ==
    IF i > Len(s) THEN NotParsed
    ELSE IF s[i] = Q THEN Parsed(JStr(acc), i + 1)
    ELSE IF s[i] = LF THEN NotParsed
    ELSE IF s[i] = BS
         THEN IF i + 1 > Len(s) THEN NotParsed
              ELSE IF s[i + 1] = Q THEN ParseString(s, i + 2, Append(acc, Q))
              ELSE IF s[i + 1] = BS THEN ParseString(s, i + 2, Append(acc, BS))
              ELSE IF s[i + 1] = "n" THEN ParseString(s, i + 2, Append(acc, LF))
              ELSE NotParsed
    ELSE ParseString(s, i + 1, Append(acc, s[i]))

ParseNumber(a) == JInt(CHOOSE n \in 0..MaxInt : ToString(n) = a)

RECURSIVE ParseValue(_, _), ParseMembers(_, _, _), ParseElems(_, _, _)
\* The JSON value that starts at position i
ParseValue(s, i) ==
    IF i > Len(s) THEN NotParsed
    ELSE IF s[i] = Q THEN ParseString(s, i + 1, <<>>)
    ELSE IF s[i] \in NumberAtoms THEN Parsed(ParseNumber(s[i]), i + 1)
    ELSE IF s[i] = "null" THEN Parsed(JNull, i + 1)
    ELSE IF s[i] = "true" THEN Parsed(JBool(TRUE), i + 1)
    ELSE IF s[i] = "false" THEN Parsed(JBool(FALSE), i + 1)
    ELSE IF s[i] = "{"
         THEN LET j == SkipWs(s, i + 1) IN
              IF j <= Len(s) /\ s[j] = "}" THEN Parsed(JMap(<<>>), j + 1)
              ELSE ParseMembers(s, j, <<>>)
    ELSE IF s[i] = "["
         THEN LET j == SkipWs(s, i + 1) IN
              IF j <= Len(s) /\ s[j] = "]" THEN Parsed(JList(<<>>), j + 1)
              ELSE ParseElems(s, j, <<>>)
    ELSE NotParsed

\* The members of a map from position i, after the members acc
ParseMembers(s, i, acc) ==
    IF i > Len(s) \/ s[i] # Q THEN NotParsed
    ELSE LET k == ParseString(s, i + 1, <<>>) IN
         IF ~k.ok THEN NotParsed
         ELSE LET c == SkipWs(s, k.i) IN
              IF c > Len(s) \/ s[c] # ":" THEN NotParsed
              ELSE LET v == ParseValue(s, SkipWs(s, c + 1)) IN
                   IF ~v.ok THEN NotParsed
                   ELSE LET d == SkipWs(s, v.i)
                            members == Append(acc, Member(k.v.s, v.v))
                        IN IF d > Len(s) THEN NotParsed
                           ELSE IF s[d] = "}" THEN Parsed(JMap(members), d + 1)
                           ELSE IF s[d] = "," THEN ParseMembers(s, SkipWs(s, d + 1), members)
                           ELSE NotParsed

\* The elements of a list from position i, after the elements acc
ParseElems(s, i, acc) ==
    LET v == ParseValue(s, i) IN
    IF ~v.ok THEN NotParsed
    ELSE LET d == SkipWs(s, v.i)
             elems == Append(acc, v.v)
         IN IF d > Len(s) THEN NotParsed
            ELSE IF s[d] = "]" THEN Parsed(JList(elems), d + 1)
            ELSE IF s[d] = "," THEN ParseElems(s, SkipWs(s, d + 1), elems)
            ELSE NotParsed

\* json.loads(text): the value, or not ok where it raises
Loads(text) ==
    LET v == ParseValue(text, SkipWs(text, 1)) IN
    IF v.ok /\ SkipWs(text, v.i) = Len(text) + 1 THEN v ELSE NotParsed

(***************************************************************************)
(* The evaluation log (src/experiments/io.py: append_jsonl, read_jsonl).    *)
(* append_jsonl takes no lock.  What it hands to write() reaches the file   *)
(* in one piece or, when the write is cut short, in two.                    *)
(***************************************************************************)
Writers == {"w1", "w2"}

NoLog == [exists |-> FALSE, data |-> <<>>]

NoWriter == [busy |-> FALSE, rec |-> JNull, pending |-> <<>>, cut |-> FALSE]

NoRows == [done |-> FALSE, out |-> <<>>]

\* Variant: the file is opened for writing, not for appending
OpenedTruncating(l) == [exists |-> TRUE, data |-> <<>>]

\* Line 30: path.open("a") creates the file if need be and keeps its content
Opened(l) == [exists |-> TRUE, data |-> l.data]

\* Line 31: what append_jsonl writes
JsonLine(record) == Dumps(record) \o <<LF>>

\* append_jsonl up to its write: the file is opened, the line is formatted
BeginAppend(w, record) ==
    /\ ~writers[w].busy
    /\ log' = Opened(log)
    /\ writers' = [writers EXCEPT ![w] =
            [busy |-> TRUE, rec |-> record, pending |-> JsonLine(record), cut |-> FALSE]]
    /\ rows' = NoRows
    /\ UNCHANGED <<sideVars, mergeVars, env, available, blankAtInit, routerVars, cmpVars, appended, uiVars>>

\* The next k atoms of the line reach the file; with the last of them the
\* file is closed and append_jsonl returns
WriteChunk(w, k) ==
    /\ writers[w].busy
    /\ k \in 1..Len(writers[w].pending)
    /\ k < Len(writers[w].pending) => ~writers[w].cut
    /\ log' = [log EXCEPT !.data = @ \o SubSeq(writers[w].pending, 1, k)]
    /\ IF k = Len(writers[w].pending)
       THEN /\ writers' = [writers EXCEPT ![w] = NoWriter]
            /\ appended' = Append(appended, writers[w].rec)
       ELSE /\ writers' = [writers EXCEPT ![w].pending = SubSeq(@, k + 1, Len(@)),
                                          ![w].cut = TRUE]
            /\ appended' = appended
    /\ rows' = NoRows
    /\ UNCHANGED <<sideVars, mergeVars, env, available, blankAtInit, routerVars, cmpVars, uiVars>>

\* The lines of a text as iterating over the file yields them, without
\* their newline: a line starts at the start of the text and after every
\* newline, and ends before the next newline or with the text
SplitLines(data) ==
    LET n == Len(data)
        starts == {i \in 1..n : i = 1 \/ data[i - 1] = LF}
        StartOf(k) == CHOOSE a \in starts : Cardinality({b \in starts : b < a}) = k - 1
        EndOf(a) == CHOOSE e \in a..(n + 1) :
                        /\ e = n + 1 \/ data[e] = LF
                        /\ \A j \in a..(e - 1) : data[j] # LF
    IN [k \in 1..Cardinality(starts) |-> SubSeq(data, StartOf(k), EndOf(StartOf(k)) - 1)]

\* Variant: the first malformed line ends the reading
RECURSIVE ReadLinesAborting(_)
ReadLinesAborting(lines) ==
    IF lines = <<>> THEN <<>>
    ELSE LET line == Strip(Head(lines)) IN
         IF line = <<>> THEN ReadLinesAborting(Tail(lines))
         ELSE LET v == Loads(line) IN
              IF v.ok THEN <<v.v>> \o ReadLinesAborting(Tail(lines))
              ELSE <<>>

\* Lines 73-80: blank lines and lines that json.loads rejects are skipped
RECURSIVE ReadLines(_)
ReadLines(lines) ==
    IF lines = <<>> THEN <<>>
    ELSE LET line == Strip(Head(lines)) IN
         IF line = <<>> THEN ReadLines(Tail(lines))
         ELSE LET v == Loads(line) IN
              IF v.ok THEN <<v.v>> \o ReadLines(Tail(lines))
              ELSE ReadLines(Tail(lines))

\* read_jsonl
ReadJsonl(l) == IF ~l.exists THEN <<>> ELSE ReadLines(SplitLines(l.data))

\* read_jsonl is called
Read ==
    /\ rows' = [done |-> TRUE, out |-> ReadJsonl(log)]
    /\ ~rows.done
    /\ UNCHANGED <<sideVars, mergeVars, env, available, blankAtInit, routerVars, cmpVars, log, writers, appended, uiVars>>

\* Something other than the application leaves a line in the log that is
\* not a record
Damage(line) ==
    /\ \A w \in Writers : ~writers[w].busy
    /\ log.exists
    /\ log' = [log EXCEPT !.data = @ \o line \o <<LF>>]
    /\ rows' = NoRows
    /\ UNCHANGED <<sideVars, mergeVars, env, available, blankAtInit, routerVars, cmpVars, writers, appended, uiVars>>

LogIdle ==
    /\ log = NoLog
    /\ writers = [w \in Writers |-> NoWriter]
    /\ appended = <<>>
    /\ rows = NoRows

(***************************************************************************)
(* The compare view (run_chat.py, render_compare_view): the handlers of     *)
(* "Run compare", "Save scores" and "Save preferences".  A string that the  *)
(* code writes to the log is a sequence of atoms.  The temperature and the  *)
(* latency of an item are left out of its record.                           *)
(***************************************************************************)
DEFAULT_COMPARE_QUESTION == "Why is the sky blue -- Explain it to a blind person."

blind_default == TRUE

PrimingDefault == "You are a helpful assistant."

\* datetime.utcnow().isoformat() + "Z", at time t of the clock
IsoZ(t) == <<"T", ToString(t), "Z">>

\* io.sha256_text
Sha256Text(text) == <<"sha256(", text, ")">>

Text(t) == IF t = "" THEN <<>> ELSE <<t>>

\* The value of compare_last_run: an absent one, and a run
NoSession ==
    [present |-> FALSE, run_id |-> <<>>, prompt_hash |-> <<>>, prompt_text |-> "",
     blind |-> FALSE, result |-> NoCompareRet]

LastRun(run_id, p_hash, prompt_text, blind_mode, result) ==
    [present |-> TRUE, run_id |-> run_id, prompt_hash |-> p_hash,
     prompt_text |-> prompt_text, blind |-> blind_mode, result |-> result]

\* What the last handler did: how it ended, whether a record it was to append
\* is not in the log, and the choices it was given
NoAppRet == [op |-> "none", ret |-> "none", dropped |-> FALSE, form |-> <<>>]

\* Lines 1120-1139
ResultRecord(item, run_ts, run_id, p_hash, prompt_text, blind_mode) ==
    JMap(<<Member(<<"version">>, JInt(1)),
           Member(<<"type">>, JStr(<<"result">>)),
           Member(<<"timestamp">>, JStr(run_ts)),
           Member(<<"run_id">>, JStr(run_id)),
           Member(<<"prompt_id">>, JStr(p_hash)),
           Member(<<"prompt_text">>, JStr(Text(prompt_text))),
           Member(<<"blind_label">>, JStr(Text(item.blind_label))),
           Member(<<"provider">>, JStr(Text(item.provider))),
           Member(<<"model">>, JStr(Text(item.model))),
           Member(<<"input_tokens">>, JInt(item.input_tokens_est)),
           Member(<<"output_tokens">>, JInt(item.output_tokens_est)),
           Member(<<"estimated_cost_usd">>, JInt(item.estimated_cost_usd)),
           Member(<<"response_text">>, JStr(Text(item.response_text))),
           Member(<<"status">>, JStr(Text(item.status))),
           Member(<<"error">>, IF item.error = None THEN JNull ELSE JStr(item.error[1])),
           Member(<<"blind">>, JBool(blind_mode))>>)

\* Lines 1192-1204: the entry of a label on the scoring form
ScoreEntry(label, overall, notes, winner) ==
    [label |-> label,
     scores |-> <<Member(<<"correctness">>, JInt(3)), Member(<<"usefulness">>, JInt(3)),
                  Member(<<"clarity">>, JInt(3)), Member(<<"safety">>, JInt(3)),
                  Member(<<"overall">>, JInt(overall))>>,
     notes |-> notes,
     winner |-> label = winner]

\* Lines 1218-1229
ScoreRecord(entry, ts, last) ==
    JMap(<<Member(<<"version">>, JInt(1)),
           Member(<<"type">>, JStr(<<"score">>)),
           Member(<<"timestamp">>, JStr(ts)),
           Member(<<"run_id">>, JStr(last.run_id)),
           Member(<<"prompt_id">>, JStr(last.prompt_hash)),
           Member(<<"blind_label">>, JStr(Text(entry.label))),
           Member(<<"scores">>, JMap(entry.scores)),
           Member(<<"notes">>, JStr(entry.notes)),
           Member(<<"winner">>, JBool(entry.winner)),
           Member(<<"scored_by">>, JStr(<<"human">>))>>)

\* Line 1238: label_to_combo[label], written with its label
Side(label, results) ==
    LET i == CHOOSE j \in 1..Len(results) :
                /\ results[j].blind_label = label
                /\ \A k \in 1..Len(results) : results[k].blind_label = label => k <= j
    IN JMap(<<Member(<<"label">>, JStr(Text(label))),
              Member(<<"provider">>, JStr(Text(results[i].provider))),
              Member(<<"model">>, JStr(Text(results[i].model)))>>)

\* Lines 1264-1275
PreferenceRecord(a, b, winner_label, ts, last) ==
    JMap(<<Member(<<"version">>, JInt(1)),
           Member(<<"type">>, JStr(<<"preference">>)),
           Member(<<"timestamp">>, JStr(ts)),
           Member(<<"run_id">>, JStr(last.run_id)),
           Member(<<"prompt_id">>, JStr(last.prompt_hash)),
           Member(<<"pair">>, JList(<<JStr(Text(a)), JStr(Text(b))>>)),
           Member(<<"winner_label">>, JStr(Text(winner_label))),
           Member(<<"left">>, Side(a, last.result.results)),
           Member(<<"right">>, Side(b, last.result.results)),
           Member(<<"scored_by">>, JStr(<<"human">>))>>)

\* Lines 1092-1099
CacheHitRecord(ts, cached) ==
    JMap(<<Member(<<"version">>, JInt(1)),
           Member(<<"type">>, JStr(<<"cache_hit">>)),
           Member(<<"timestamp">>, JStr(ts)),
           Member(<<"run_id">>, JStr(cached.run_id)),
           Member(<<"prompt_id">>, JStr(Sha256Text(DEFAULT_COMPARE_QUESTION))),
           Member(<<"note">>, JStr(<<"Served from default cache">>))>>)

\* How a loop of n append_jsonl calls goes: all succeed, or the call number
\* at raises after written atoms of its line have reached the file.  The
\* failures tried are those of the last call, before and after its first
\* atoms are written.
NoFail == [at |-> 0, written |-> 0]

PartialLen == 4

Fails(n) ==
    {NoFail} \cup {[at |-> i, written |-> k] : i \in {n} \ {0}, k \in {0, PartialLen}}

\* append_jsonl called from one thread of control: the file after a call
\* that succeeded, and after a call that raised
AppendJsonl(l, record) == [Opened(l) EXCEPT !.data = @ \o JsonLine(record)]

AppendJsonlFailed(l, record, written) ==
    IF written = 0 THEN l
    ELSE [Opened(l) EXCEPT !.data = @ \o SubSeq(JsonLine(record), 1, written)]

\* The loops over append_jsonl (lines 1119-1140, 1217-1230, 1259-1279): the
\* file, the records appended, and whether every call returned
RECURSIVE AppendAll(_, _, _)
AppendAll(l, records, fail) ==
    IF records = <<>> THEN [log |-> l, ok |-> TRUE, done |-> <<>>]
    ELSE IF fail.at = 1
         THEN [log |-> AppendJsonlFailed(l, Head(records), fail.written),
               ok |-> FALSE, done |-> <<>>]
    ELSE LET rest == AppendAll(AppendJsonl(l, Head(records)), Tail(records),
                               IF fail.at = 0 THEN fail ELSE [fail EXCEPT !.at = @ - 1])
         IN [rest EXCEPT !.done = <<Head(records)>> \o @]

UiReady ==
    /\ pc = "idle"
    /\ cmpPc = "idle"
    /\ \A w \in Writers : ~writers[w].busy

\* Lines 1063-1159: "Run compare" is clicked with this prompt and these
\* combos.  The cache is hit when the prompt is the default one and the
\* cache file is there (its combos and temperature match the selection);
\* failCache is how the append of the cache-hit record goes, result how
\* collect_comparisons ends, failPersist how the appends of the result
\* records go.
RunCompare(prompt_text, combos, failCache, result, failPersist) ==
    /\ UiReady
    /\ LET hit == prompt_text = DEFAULT_COMPARE_QUESTION /\ cache.present
           cached == [cache EXCEPT !.blind = blind_default]
           c == IF hit
                THEN AppendAll(log, <<CacheHitRecord(IsoZ(now), cache)>>, failCache)
                ELSE [log |-> log, ok |-> FALSE, done |-> <<>>]
           used_cache == hit /\ c.ok
           args == [prompt_text |-> prompt_text, combos |-> combos,
                    blind |-> blind_default, priming_text |-> PrimingDefault]
           run_ts == IsoZ(now)
           run_id == run_ts \o <<"_adhoc">>
           p_hash == Sha256Text(prompt_text)
           records == [i \in 1..Len(result.results) |->
                          ResultRecord(result.results[i], run_ts, run_id, p_hash,
                                       prompt_text, blind_default)]
           w == AppendAll(c.log, records, failPersist)
           run == LastRun(run_id, p_hash, prompt_text, blind_default, result)
       IN /\ failCache \in (IF hit THEN Fails(1) ELSE {NoFail})
          /\ result \in (IF used_cache THEN {NoCompareRet} ELSE CollectComparisons(args))
          /\ failPersist \in (IF result.kind = "return" THEN Fails(Len(records)) ELSE {NoFail})
          /\ IF used_cache
             THEN /\ log' = c.log
                  /\ appended' = appended \o c.done
                  /\ session' = cached
                  /\ cache' = cache
                  /\ appRet' = [op |-> "cached", ret |-> "ok", dropped |-> FALSE, form |-> <<>>]
             ELSE IF result.kind = "raise"
             THEN /\ log' = c.log
                  /\ appended' = appended
                  /\ session' = IF hit THEN cached ELSE session
                  /\ cache' = cache
                  /\ appRet' = [op |-> "run", ret |-> "error", dropped |-> hit, form |-> <<>>]
             ELSE /\ log' = w.log
                  /\ appended' = appended \o w.done
                  /\ session' = IF w.ok THEN run ELSE IF hit THEN cached ELSE session
                  /\ cache' = IF w.ok /\ prompt_text = DEFAULT_COMPARE_QUESTION
                              THEN run ELSE cache
                  /\ appRet' = [op |-> "run", ret |-> IF w.ok THEN "ok" ELSE "error",
                                dropped |-> hit \/ ~w.ok, form |-> <<>>]
    /\ rows' = NoRows
    /\ ops' = ops + 1
    /\ UNCHANGED <<sideVars, mergeVars, env, available, blankAtInit, routerVars, cmpVars, writers, now>>

\* Lines 1187-1231: "Save scores" is clicked; overall, notes and winner are
\* what the form holds, fail is how the appends go
SaveScores(overall, notes, winner, fail) ==
    /\ UiReady
    /\ session.present
    /\ LET results == session.result.results
           labels == [i \in 1..Len(results) |-> results[i].blind_label]
           ts == IsoZ(now)
           records == [i \in 1..Len(labels) |->
                          ScoreRecord(ScoreEntry(labels[i], overall[labels[i]], notes,
                                                 labels[winner]), ts, session)]
           w == AppendAll(log, records, fail)
       IN /\ winner \in 1..Len(labels)
          /\ fail \in Fails(Len(records))
          /\ log' = w.log
          /\ appended' = appended \o w.done
          /\ appRet' = [op |-> "scores", ret |-> IF w.ok THEN "ok" ELSE "error",
                        dropped |-> ~w.ok, form |-> <<>>]
    /\ rows' = NoRows
    /\ ops' = ops + 1
    /\ UNCHANGED <<sideVars, mergeVars, env, available, blankAtInit, routerVars, cmpVars, writers, now,
                   session, cache>>

\* Lines 1241-1246: the pairs of positions i < j, in the order of the loops
PairsOf(n) ==
    LET all == {<<i, j>> : i \in 1..n, j \in 1..n} \cap {x \in (1..n) \X (1..n) : x[1] < x[2]}
        Before(x, y) == x[1] < y[1] \/ (x[1] = y[1] /\ x[2] < y[2])
    IN [k \in 1..Cardinality(all) |->
            CHOOSE x \in all : Cardinality({y \in all : Before(y, x)}) = k - 1]

\* Lines 1248-1256: the options of the radio of the pair (a, b), as strings
\* of characters; a label is one character
Wins(label) == <<label, " ", "w", "i", "n", "s">>

TieSkip == <<"T", "i", "e", "/", "S", "k", "i", "p">>

RadioOptions(a, b) == {Wins(a), Wins(b), TieSkip}

\* str.startswith
StartsWith(text, prefix) ==
    /\ Len(prefix) <= Len(text)
    /\ SubSeq(text, 1, Len(prefix)) = prefix

\* Variant: the first label wins whatever was chosen
WinnerLabelFirst(a, b, choice) == a

\* Line 1265
WinnerLabel(a, b, choice) == IF StartsWith(choice, <<a>>) THEN a ELSE b

\* Lines 1233-1283: "Save preferences" is clicked; choice[k] is what the
\* radio of the k-th pair holds, fail is how the appends go
SavePreferences(choice, fail) ==
    /\ UiReady
    /\ session.present
    /\ LET results == session.result.results
           pairs == PairsOf(Len(results))
           ts == IsoZ(now)
           Decided(k) == choice[k] # TieSkip
           decided == SelectSeq([k \in 1..Len(pairs) |-> k], Decided)
           records == [d \in 1..Len(decided) |->
                          LET a == results[pairs[decided[d]][1]].blind_label
                              b == results[pairs[decided[d]][2]].blind_label
                          IN PreferenceRecord(a, b, WinnerLabel(a, b, choice[decided[d]]),
                                              ts, session)]
           w == AppendAll(log, records, fail)
       IN /\ DOMAIN choice = 1..Len(pairs)
          /\ \A k \in 1..Len(pairs) :
                choice[k] \in RadioOptions(results[pairs[k][1]].blind_label,
                                          results[pairs[k][2]].blind_label)
          /\ fail \in Fails(Len(records))
          /\ log' = w.log
          /\ appended' = appended \o w.done
          /\ appRet' = [op |-> "preferences", ret |-> IF w.ok THEN "ok" ELSE "error",
                        dropped |-> ~w.ok, form |-> choice]
    /\ rows' = NoRows
    /\ ops' = ops + 1
    /\ UNCHANGED <<sideVars, mergeVars, env, available, blankAtInit, routerVars, cmpVars, writers, now,
                   session, cache>>

\* Time passes
Tick ==
    /\ now' = now + 1
    /\ UNCHANGED <<sideVars, mergeVars, env, available, blankAtInit, routerVars, cmpVars, logVars,
                   session, cache, appRet, ops>>

UiIdle ==
    /\ now = 0
    /\ session = NoSession
    /\ cache = NoSession
    /\ appRet = NoAppRet
    /\ ops = 0

(***************************************************************************)
(* The results viewer (run_chat.py, render_results_view): the merge of the  *)
(* latest score of each (run_id, prompt_id, blind_label) into the result    *)
(* rows.  A timestamp is a number.  sort_values does not say in which order *)
(* it leaves rows of equal timestamp: it is the order of the log (tiesKeep  *)
(* is "last") or the reverse (tiesKeep is "first").                         *)
(***************************************************************************)
KeyOf(row) == <<row.run_id, row.prompt_id, row.blind_label>>

\* sort_values("timestamp") of line 1357
SortValues(scores, keep) ==
    LET n == Len(scores)
        Before(i, j) ==
            \/ scores[i].timestamp < scores[j].timestamp
            \/ /\ scores[i].timestamp = scores[j].timestamp
               /\ IF keep = "last" THEN i < j ELSE i > j
    IN [k \in 1..n |->
            scores[CHOOSE i \in 1..n : Cardinality({j \in 1..n : Before(j, i)}) = k - 1]]

\* Variant: the first row of each group is kept
RECURSIVE GroupHead(_)
GroupHead(rs) ==
    IF rs = <<>> THEN <<>>
    ELSE LET Other(r) == KeyOf(r) # KeyOf(Head(rs)) IN
         <<Head(rs)>> \o GroupHead(SelectSeq(Tail(rs), Other))

\* groupby([...]).tail(1) of line 1357: the last row of each group
RECURSIVE GroupTail(_)
GroupTail(rs) ==
    IF rs = <<>> THEN <<>>
    ELSE IF \E k \in 2..Len(rs) : KeyOf(rs[k]) = KeyOf(Head(rs))
         THEN GroupTail(Tail(rs))
    ELSE <<Head(rs)>> \o GroupTail(Tail(rs))

\* A row of the merged frame: a result row with the columns of a score row
Joined(result, score) ==
    [result |-> result, scores |-> Some(score.scores), notes |-> Some(score.notes),
     winner |-> Some(score.winner)]

Unscored(result) == [result |-> result, scores |-> None, notes |-> None, winner |-> None]

\* results_df.merge(..., how="left") of lines 1358-1361
RECURSIVE LeftMerge(_, _)
LeftMerge(results, right) ==
    IF results = <<>> THEN <<>>
    ELSE LET Match(r) == KeyOf(r) = KeyOf(Head(results))
             matches == SelectSeq(right, Match)
         IN (IF matches = <<>> THEN <<Unscored(Head(results))>>
             ELSE [k \in 1..Len(matches) |-> Joined(Head(results), matches[k])])
            \o LeftMerge(Tail(results), right)

\* Lines 1355-1363
MergeLatestScores(results, scores, keep) ==
    IF scores # <<>> THEN LeftMerge(results, GroupTail(SortValues(scores, keep)))
    ELSE [i \in 1..Len(results) |-> Unscored(results[i])]

NotMerged == [done |-> FALSE, rows |-> <<>>]

\* The viewer is rendered
Merge ==
    /\ merged' = [done |-> TRUE, rows |-> MergeLatestScores(mResults, mScores, tiesKeep)]
    /\ UNCHANGED <<sideVars, env, available, blankAtInit, routerVars, cmpVars, logVars, uiVars,
                   mResults, mScores, tiesKeep, before, added>>

\* A score is saved after the viewer was rendered
AppendScore(score) ==
    /\ merged.done
    /\ mScores' = Append(mScores, score)
    /\ before' = merged.rows
    /\ added' = <<score>>
    /\ merged' = NotMerged
    /\ UNCHANGED <<sideVars, env, available, blankAtInit, routerVars, cmpVars, logVars, uiVars,
                   mResults, tiesKeep>>

NoMerge ==
    /\ mResults = <<>>
    /\ mScores = <<>>
    /\ tiesKeep = "last"
    /\ merged = NotMerged
    /\ before = <<>>
    /\ added = <<>>

(***************************************************************************)
(* The prompt index, the token estimate, the conversation store and the     *)
(* chat flow, at rest.                                                      *)
(***************************************************************************)
NoCatalog == [exists |-> FALSE, prompts |-> <<>>]

NotJoined == [done |-> FALSE, text |-> <<>>, prompt_id |-> <<>>, tags |-> None]

NoEstimate == [text |-> <<>>, done |-> FALSE, tokens |-> 0]

NoFile == [exists |-> FALSE, data |-> <<>>]

NoSave == [called |-> FALSE, ok |-> FALSE, msg |-> "", conversation |-> <<>>, create_backup |-> FALSE]

NoChat == [asked |-> FALSE, calls |-> <<>>, answer |-> ""]

SideIdle ==
    /\ catalog = NoCatalog
    /\ joined = NotJoined
    /\ est = NoEstimate
    /\ convFile = NoFile
    /\ convBackup = NoFile
    /\ convRet = NoSave
    /\ convPrev = NoFile
    /\ chat = NoChat

(***************************************************************************)
(* The prompt index (io.py, build_prompt_index) and its use by the results  *)
(* viewer (run_chat.py, lines 1323-1327).  A text is a sequence of          *)
(* characters; the catalog is the list under "prompts" of the YAML file.    *)
(***************************************************************************)
\* Lines 89-90 of io.py: the key of a prompt of the catalog
PromptKey(text) == Sha256Text(text)

\* build_prompt_index: a later prompt replaces an earlier one of the same key
BuildPromptIndex(cat) ==
    LET prompts == IF cat.exists THEN cat.prompts ELSE <<>>
        keys == {PromptKey(prompts[i].text) : i \in 1..Len(prompts)}
    IN [h \in keys |->
           LET i == CHOOSE j \in 1..Len(prompts) :
                       /\ PromptKey(prompts[j].text) = h
                       /\ \A k \in 1..Len(prompts) : PromptKey(prompts[k].text) = h => k <= j
           IN [id |-> prompts[i].id, text |-> prompts[i].text, tags |-> prompts[i].tags]]

\* Line 1118 of run_chat.py: the fingerprint a run records for the prompt
\* typed in the text area
RunPromptId(compare_prompt) == Sha256Text(Strip(compare_prompt))

\* Line 1327: pindex.get(h, {}).get("tags")
TagsOf(pindex, h) == IF h \in DOMAIN pindex THEN Some(pindex[h].tags) ELSE None

\* A comparison is run with this prompt, and the viewer looks up the tags
\* of its result rows
ViewRun(compare_prompt) ==
    /\ ~joined.done
    /\ joined' = [done |-> TRUE, text |-> compare_prompt,
                  prompt_id |-> RunPromptId(compare_prompt),
                  tags |-> TagsOf(BuildPromptIndex(catalog), RunPromptId(compare_prompt))]
    /\ UNCHANGED <<env, available, blankAtInit, routerVars, cmpVars, logVars, uiVars,
                   mergeVars, catalog, est, convFile, convBackup, convRet, convPrev, chat>>

\* estimate_tokens is called with the text
Estimate ==
    /\ ~est.done
    /\ est' = [est EXCEPT !.done = TRUE, !.tokens = EstimateTokens(est.text)]
    /\ UNCHANGED <<env, available, blankAtInit, routerVars, cmpVars, logVars, uiVars,
                   mergeVars, catalog, joined, convFile, convBackup, convRet, convPrev, chat>>

(***************************************************************************)
(* The conversation store (conversation_manager.py, save_conversation), for *)
(* one file name.  A conversation is a list of messages; the file holds its *)
(* JSON text (the indentation is left out).  io says how the file           *)
(* operations of the call go: the copy to the backup, the write (which can  *)
(* fail when the file is opened, or after part of the text is written), the *)
(* copy back from the backup, and the removal of the backup.                *)
(***************************************************************************)
\* validate_conversation, lines 36-57, of a list of dicts of strings
ValidateConversation(conversation) ==
    \A i \in 1..Len(conversation) : {"user", "ai"} \subseteq DOMAIN conversation[i]

\* json.dump(conversation, f) of line 135
ConversationJson(conversation) ==
    Dumps(JList([i \in 1..Len(conversation) |->
                    JMap(<<Member(<<"user">>, JStr(Text(conversation[i].user))),
                           Member(<<"ai">>, JStr(Text(conversation[i].ai)))>>)]))

IoOutcomes ==
    [copy : {"ok", "fail"}, write : {"ok", "open", "partial"},
     restore : {"ok", "fail"}, unlink : {"ok", "fail"}]

Saved(ok, msg, conversation, create_backup) ==
    [called |-> TRUE, ok |-> ok, msg |-> msg, conversation |-> conversation,
     create_backup |-> create_backup]

\* Lines 100-157: a backup that is there is used and removed whether or not
\* this call made it (lines 138 and 146)
SaveConversation(conversation, create_backup, io) ==
    /\ convPrev' = convFile
    /\ IF ~ValidateConversation(conversation)
       THEN /\ convRet' = Saved(FALSE, "Invalid conversation data format", conversation,
                                create_backup)
            /\ UNCHANGED <<convFile, convBackup>>
       ELSE IF create_backup /\ convFile.exists /\ io.copy = "fail"
       THEN /\ convRet' = Saved(FALSE, "Failed to create backup", conversation, create_backup)
            /\ UNCHANGED <<convFile, convBackup>>
       ELSE LET backup == IF create_backup /\ convFile.exists THEN convFile ELSE convBackup
                text == ConversationJson(conversation)
                written == IF io.write = "open" THEN convFile
                           ELSE [exists |-> TRUE, data |-> SubSeq(text, 1, PartialLen)]
            IN IF io.write # "ok"
               THEN /\ convFile' = IF create_backup /\ backup.exists /\ io.restore = "ok"
                                   THEN backup ELSE written
                    /\ convBackup' = backup
                    /\ convRet' = Saved(FALSE, "Failed to save conversation", conversation,
                                        create_backup)
               ELSE /\ convFile' = [exists |-> TRUE, data |-> text]
                    /\ convBackup' = IF create_backup /\ backup.exists /\ io.unlink = "ok"
                                     THEN NoFile ELSE backup
                    /\ convRet' = Saved(TRUE, "Saved", conversation, create_backup)
    /\ UNCHANGED <<env, available, blankAtInit, routerVars, cmpVars, logVars, uiVars,
                   mergeVars, catalog, joined, est, chat>>

(***************************************************************************)
(* The chat flow (run_chat.py, get_multi_provider_response): the question   *)
(* goes to the provider and model of the settings and, when that call       *)
(* raises, to another provider.  A call is written with how it ended.       *)
(***************************************************************************)
Apology ==
    "I'm sorry, I'm having trouble connecting to the AI service right now. Please check your API keys and try again."

ChatCall(provider, model, res) == [provider |-> provider, model |-> model, kind |-> res.kind]

\* Lines 576-581: the first provider of get_available_providers(), which
\* keeps the declaration order, that is not the provider of the settings
FallbackProvider(llm_provider) ==
    LET others == SelectSeq(ProviderOrder, LAMBDA q : available[q] /\ q # llm_provider)
    IN IF others = <<>> THEN None ELSE Some(Head(others))

\* Line 572
HasFallback == Cardinality(GetAvailableProviders) > 1

\* Lines 540-600: primary is how the first call ends, fallback how the
\* second one ends if it is made
GetMultiProviderResponse(llm_provider, selected_model, primary, fallback) ==
    LET first == <<ChatCall(llm_provider, selected_model, primary)>>
        fp == FallbackProvider(llm_provider)
    IN IF primary.kind # "raise"
       THEN [asked |-> TRUE, calls |-> first, answer |-> primary.text]
       ELSE IF HasFallback /\ fp # None
       THEN [asked |-> TRUE,
             calls |-> Append(first, ChatCall(fp[1], PROVIDERS[fp[1]].models[1], fallback)),
             answer |-> IF fallback.kind = "raise" THEN Apology ELSE fallback.text]
       ELSE [asked |-> TRUE, calls |-> first, answer |-> Apology]

\* A question is asked
Ask(llm_provider, selected_model, primary, fallback) ==
    /\ pc = "idle"
    /\ primary \in CompletionResults(llm_provider, selected_model)
    /\ LET fp == FallbackProvider(llm_provider) IN
       fallback \in (IF primary.kind = "raise" /\ HasFallback /\ fp # None
                     THEN CompletionResults(fp[1], PROVIDERS[fp[1]].models[1])
                     ELSE {NoOutcome})
    /\ chat' = GetMultiProviderResponse(llm_provider, selected_model, primary, fallback)
    /\ UNCHANGED <<env, available, blankAtInit, routerVars, cmpVars, logVars, uiVars,
                   mergeVars, catalog, joined, est, convFile, convBackup, convRet, convPrev>>

(***************************************************************************)
(* Arguments the callers pass.                                              *)
(***************************************************************************)
ProviderArgs == ProviderKeys \cup {"unknown"}

ModelArgs == {"gpt-4o-mini", "claude-3-haiku-20240307", "gemini-2.5-pro", "invalid-model"}

FallbackProviderArgs == {"openai", "anthropic", "unknown"}

FallbackModelArgs == {"gpt-4o-mini", "claude-3-haiku-20240307"}

RouterIdle ==
    /\ pc = "idle"
    /\ op = "none"
    /\ phase = "none"
    /\ cur = NoArgs
    /\ fb = NoFallback
    /\ attempt = 0
    /\ trace = <<>>
    /\ invoked = <<>>
    /\ outcome = NoOutcomes
    /\ ret = NoOutcome

\* The state after LLMService() has been constructed in environment e.
Constructed(e) ==
    /\ env = e
    /\ available = CheckProviderAvailability(e)
    /\ blankAtInit = [p \in ProviderKeys |-> IsBlank(e[p])]
    /\ RouterIdle

Key == <<" ", "k">>

\* Environments the router is started in: no key at all, and keys for some
\* providers with the others unset, empty or blank.
RouterEnvs ==
    {[openai |-> NoValue, anthropic |-> NoValue, google |-> NoValue],
     [openai |-> Key, anthropic |-> Key, google |-> <<" ">>],
     [openai |-> <<>>, anthropic |-> Key, google |-> NoValue],
     [openai |-> Key, anthropic |-> NoValue, google |-> Key]}

(***************************************************************************)
(* Spec: the router.  A service constructed in a fixed environment serves   *)
(* get_completion and get_completion_with_fallback operations.              *)
(***************************************************************************)
Init ==
    /\ \E e \in RouterEnvs : Constructed(e)
    /\ pricing = NoPricingFile
    /\ CompareIdle
    /\ LogIdle
    /\ UiIdle
    /\ NoMerge
    /\ SideIdle

Next ==
    \/ \E p \in ProviderArgs, m \in ModelArgs, r \in 0..MaxRetriesBound : StartComplete(p, m, r)
    \/ \E pp \in FallbackProviderArgs, pm \in FallbackModelArgs,
          fp \in FallbackProviderArgs, fm \in FallbackModelArgs : StartFallback(pp, pm, fp, fm)
    \/ \E o \in CallOutcomes : Attempt(o)
    \/ Return

Spec == Init /\ [][Next]_vars

(***************************************************************************)
(* SpecRegistry: the provider table.  The environment changes, services are *)
(* constructed, and get_completion is called with few retries.              *)
(***************************************************************************)
RegistryRetries == 1

InitRegistry ==
    /\ \E e \in [ProviderKeys -> EnvValues] : Constructed(e)
    /\ pricing = NoPricingFile
    /\ CompareIdle
    /\ LogIdle
    /\ UiIdle
    /\ NoMerge
    /\ SideIdle

NextRegistry ==
    \/ \E p \in ProviderKeys, v \in EnvValues : SetEnv(p, v)
    \/ Construct
    \/ \E p \in ProviderArgs, m \in ModelArgs, r \in 0..RegistryRetries : StartComplete(p, m, r)
    \/ \E o \in CallOutcomes : Attempt(o)
    \/ Return

SpecRegistry == InitRegistry /\ [][NextRegistry]_vars

(***************************************************************************)
(* SpecCompare: collect_comparisons.  The service is constructed where only *)
(* OpenAI has a key; comparisons are run one after the other over lists of  *)
(* at most MaxCombos combos, with the pricing file absent, empty or pricing *)
(* one model.                                                               *)
(***************************************************************************)
MaxCombos == 3

CompareEnv == [openai |-> Key, anthropic |-> NoValue, google |-> NoValue]

ComboArgs ==
    {[provider |-> "openai", model |-> "gpt-4o-mini"],
     [provider |-> "anthropic", model |-> "claude-3-haiku-20240307"]}

SeqsUpTo(S, n) == UNION {[1..k -> S] : k \in 0..n}

\* prompt_text, blind and priming_text of the comparisons that are run
CompareArgs ==
    {[prompt_text |-> "Why is the sky blue?", blind |-> TRUE, priming_text |-> ""],
     [prompt_text |-> "Why is the sky blue?", blind |-> FALSE, priming_text |-> "Be brief."]}

PricingStates ==
    {NoPricingFile,
     PricingFile(<<>>),
     PricingFile(<<"openai", "gpt-4o-mini">> :> [input_per_1k |-> 150, output_per_1k |-> 600])}

InitCompare ==
    /\ Constructed(CompareEnv)
    /\ pricing \in PricingStates
    /\ CompareIdle
    /\ LogIdle
    /\ UiIdle
    /\ NoMerge
    /\ SideIdle

NextCompare ==
    \/ \E a \in CompareArgs, c \in SeqsUpTo(ComboArgs, MaxCombos) :
          StartCompare(a.prompt_text, c, a.blind, a.priming_text)
    \/ \E r \in UNION {CompletionResults(c.provider, c.model) : c \in ComboArgs} : CollectItem(r)
    \/ \E o \in ShuffleOrders(Len(cmpItems)) : FinishCompare(o)
    \/ ReturnCompare

SpecCompare == InitCompare /\ [][NextCompare]_vars

(***************************************************************************)
(* SpecLog: two threads of control (two sessions of the application)        *)
(* append records to the log at the same time.                              *)
(***************************************************************************)
LogAppends == 2

LogRecords ==
    {JMap(<<Member(<<"blind_label">>, JStr(<<"A">>))>>),
     JMap(<<Member(<<"winner">>, JBool(TRUE))>>)}

Busy == {w \in Writers : writers[w].busy}

MaxLine(records) ==
    CHOOSE n \in {Len(JsonLine(r)) : r \in records} :
        \A r \in records : Len(JsonLine(r)) <= n

InitLog ==
    /\ Constructed(CompareEnv)
    /\ pricing = NoPricingFile
    /\ CompareIdle
    /\ LogIdle
    /\ UiIdle
    /\ NoMerge
    /\ SideIdle

NextLog ==
    \/ \E w \in Writers, r \in LogRecords :
          /\ Len(appended) + Cardinality(Busy) < LogAppends
          /\ BeginAppend(w, r)
    \/ \E w \in Writers, k \in 1..MaxLine(LogRecords) : WriteChunk(w, k)

SpecLog == InitLog /\ [][NextLog]_vars

(***************************************************************************)
(* SpecRead: one thread of control appends records, the log is damaged      *)
(* from outside between appends, and the log is read at any moment.         *)
(***************************************************************************)
ReadAppends == 2

MaxDamage == 1

ReadRecords ==
    {JMap(<<Member(<<"type">>, JStr(<<"score">>)),
            Member(<<"scores">>, JMap(<<Member(<<"clarity">>, JInt(3)),
                                        Member(<<"overall">>, JInt(5))>>)),
            Member(<<"notes">>, JStr(<<"a", LF, Q, "b", BS, "{">>)),
            Member(<<"winner">>, JBool(TRUE))>>),
     JMap(<<Member(<<"type">>, JStr(<<"result">>)),
            Member(<<"response_text">>, JStr(<<>>)),
            Member(<<"error">>, JNull)>>),
     JMap(<<Member(<<"type">>, JStr(<<"preference">>)),
            Member(<<"pair">>, JList(<<JStr(<<"A">>), JStr(<<"B">>)>>)),
            Member(<<"left">>, JMap(<<Member(<<"label">>, JStr(<<"A">>))>>))>>)}

\* Lines that are no records: empty, blank, cut short, not JSON at all
DamagedLines ==
    {<<>>, <<" ", " ">>, <<"{", Q, "type", Q, ":", " ", Q, "sco">>, <<"}", "{">>}

InitRead == InitLog

NextRead ==
    \/ \E r \in ReadRecords :
          /\ Len(appended) < ReadAppends
          /\ BeginAppend("w1", r)
    \/ \E k \in 1..MaxLine(ReadRecords) : WriteChunk("w1", k)
    \/ \E line \in DamagedLines :
          /\ Len(SplitLines(log.data)) - Len(appended) < MaxDamage
          /\ Damage(line)
    \/ Read

SpecRead == InitRead /\ [][NextRead]_vars

(***************************************************************************)
(* SpecApp: one session of the compare view.  OpenAI and Anthropic have     *)
(* keys, the pricing file is there, the two default models are selected;    *)
(* comparisons are run and scores and preferences are saved, while appends  *)
(* to the log may fail.                                                     *)
(***************************************************************************)
MaxOps == 2

MaxClock == 1

AppEnv == [openai |-> Key, anthropic |-> Key, google |-> NoValue]

AppCombos ==
    <<[provider |-> "openai", model |-> "gpt-4o-mini"],
      [provider |-> "anthropic", model |-> "claude-3-haiku-20240307"]>>

AppPrompts == {DEFAULT_COMPARE_QUESTION, "Why is the sky blue?"}

\* The comparisons tried: the call of Anthropic fails, that of OpenAI does not
AppResults(prompt_text) ==
    {r \in CollectComparisons([prompt_text |-> prompt_text, combos |-> AppCombos,
                               blind |-> blind_default, priming_text |-> PrimingDefault]) :
        r.kind = "return" =>
            \A i \in 1..Len(r.results) :
                r.results[i].status = "error" <=> r.results[i].provider = "anthropic"}

AppOveralls == {[l \in {"A", "B"} |-> 3], [l \in {"A", "B"} |-> IF l = "A" THEN 5 ELSE 3]}

AppNotes == {<<"clear", LF, "but long">>}

Choices == RadioOptions("A", "B") \cup RadioOptions("A", "C")

InitApp ==
    /\ Constructed(AppEnv)
    /\ pricing = PricingFile(<<"openai", "gpt-4o-mini">> :> [input_per_1k |-> 150, output_per_1k |-> 600])
    /\ CompareIdle
    /\ LogIdle
    /\ UiIdle
    /\ NoMerge
    /\ SideIdle

NextApp ==
    \/ \E t \in AppPrompts, fc \in Fails(1), fp \in Fails(Len(AppCombos)) :
          \E r \in {NoCompareRet} \cup AppResults(t) :
              ops < MaxOps /\ RunCompare(t, AppCombos, fc, r, fp)
    \/ \E o \in AppOveralls, n \in AppNotes, f \in Fails(Len(AppCombos)) :
          ops < MaxOps /\ SaveScores(o, n, 1, f)
    \/ \E c \in [1..1 -> Choices], f \in Fails(1) :
          ops < MaxOps /\ SavePreferences(c, f)
    \/ now < MaxClock /\ Tick

SpecApp == InitApp /\ [][NextApp]_vars

(***************************************************************************)
(* SpecMerge: the merge of the latest scores, over frames of result rows    *)
(* and of at most MaxScores score rows; after a merge a newer score is      *)
(* appended and the frames are merged again.                                *)
(***************************************************************************)
MaxScores == 2

MaxTime == 2

ResultRow(run_id, blind_label, provider_model) ==
    [run_id |-> run_id, prompt_id |-> "p1", blind_label |-> blind_label,
     provider_model |-> provider_model]

ScoreRow(run_id, blind_label, timestamp, overall) ==
    [run_id |-> run_id, prompt_id |-> "p1", blind_label |-> blind_label,
     timestamp |-> timestamp, scores |-> overall, notes |-> "", winner |-> overall = 5]

ResultFrames ==
    {<<ResultRow("r1", "A", "openai/gpt-4o-mini"),
       ResultRow("r1", "B", "anthropic/claude-3-haiku-20240307")>>,
     <<ResultRow("r1", "B", "openai/gpt-4o-mini"),
       ResultRow("r1", "A", "anthropic/claude-3-haiku-20240307"),
       ResultRow("r2", "A", "openai/gpt-4o-mini")>>}

ScoreKeys == {<<"r1", "A">>, <<"r1", "B">>, <<"r2", "A">>}

ScoreRows(times) ==
    {ScoreRow(k[1], k[2], t, o) : k \in ScoreKeys, t \in times, o \in {3, 5}}

\* A score that is newer than every score of its triple
Newer(score) ==
    \A i \in 1..Len(mScores) :
        KeyOf(mScores[i]) = KeyOf(score) => mScores[i].timestamp < score.timestamp

InitMerge ==
    /\ Constructed(CompareEnv)
    /\ pricing = NoPricingFile
    /\ CompareIdle
    /\ LogIdle
    /\ UiIdle
    /\ mResults \in ResultFrames
    /\ mScores \in SeqsUpTo(ScoreRows(1..MaxTime), MaxScores)
    /\ tiesKeep \in {"first", "last"}
    /\ merged = NotMerged
    /\ before = <<>>
    /\ added = <<>>
    /\ SideIdle

NextMerge ==
    \/ Merge
    \/ \E s \in ScoreRows(1..(MaxTime + 1)) :
          /\ added = <<>>
          /\ Newer(s)
          /\ AppendScore(s)

SpecMerge == InitMerge /\ [][NextMerge]_vars

(***************************************************************************)
(* SpecPrefs: a session of the compare view with three models selected: a   *)
(* comparison is run, preferences are saved over the three pairs of labels  *)
(* (appends of preference records may fail), and so on in turn.             *)
(***************************************************************************)
PrefEnv == [openai |-> Key, anthropic |-> Key, google |-> Key]

PrefCombos == AppCombos \o <<[provider |-> "google", model |-> "gemini-2.5-flash"]>>

PrefPrompt == "Why is the sky blue?"

\* The comparisons tried: the call of Anthropic fails, the others do not
PrefResults ==
    {r \in CollectComparisons([prompt_text |-> PrefPrompt, combos |-> PrefCombos,
                               blind |-> blind_default, priming_text |-> PrimingDefault]) :
        r.kind = "return" =>
            \A i \in 1..Len(r.results) :
                r.results[i].status = "error" <=> r.results[i].provider = "anthropic"}

PrefChoices == {Wins("A"), Wins("B"), Wins("C"), TieSkip}

PrefFails == UNION {Fails(n) : n \in 0..Len(PairsOf(Len(PrefCombos)))}

InitPrefs ==
    /\ Constructed(PrefEnv)
    /\ pricing = PricingFile(<<"openai", "gpt-4o-mini">> :> [input_per_1k |-> 150, output_per_1k |-> 600])
    /\ CompareIdle
    /\ LogIdle
    /\ UiIdle
    /\ NoMerge
    /\ SideIdle

NextPrefs ==
    \/ \E r \in PrefResults :
          ops < MaxOps /\ appRet.op # "run" /\ RunCompare(PrefPrompt, PrefCombos, NoFail, r, NoFail)
    \/ \E c \in [1..Len(PairsOf(Len(PrefCombos))) -> PrefChoices], f \in PrefFails :
          ops < MaxOps /\ appRet.op = "run" /\ SavePreferences(c, f)
    \/ now < MaxClock /\ Tick

SpecPrefs == InitPrefs /\ [][NextPrefs]_vars

(***************************************************************************)
(* SpecIndex: a catalog of at most MaxPrompts prompts, or none; a           *)
(* comparison is run with one of the texts and the viewer looks up its tags. *)
(***************************************************************************)
MaxPrompts == 2

IndexTexts == {<<"a">>, <<"a", " ">>, <<"b">>, <<" ", "b">>, <<"a", LF>>}

IndexTags == {<<"science">>, <<"safety">>}

CatalogPrompts == {[id |-> "p", text |-> t, tags |-> g] : t \in IndexTexts, g \in IndexTags}

Catalogs ==
    {NoCatalog} \cup {[exists |-> TRUE, prompts |-> ps] : ps \in SeqsUpTo(CatalogPrompts, MaxPrompts)}

InitIndex ==
    /\ Constructed(CompareEnv)
    /\ pricing = NoPricingFile
    /\ CompareIdle
    /\ LogIdle
    /\ UiIdle
    /\ NoMerge
    /\ catalog \in Catalogs
    /\ joined = NotJoined
    /\ est = NoEstimate
    /\ convFile = NoFile
    /\ convBackup = NoFile
    /\ convRet = NoSave
    /\ convPrev = NoFile
    /\ chat = NoChat

NextIndex == \E t \in IndexTexts : ViewRun(t)

SpecIndex == InitIndex /\ [][NextIndex]_vars

(***************************************************************************)
(* SpecTokens: the token estimate of the texts of 0 to MaxTextLen           *)
(* characters.                                                              *)
(***************************************************************************)
MaxTextLen == 60

InitTokens ==
    /\ Constructed(CompareEnv)
    /\ pricing = NoPricingFile
    /\ CompareIdle
    /\ LogIdle
    /\ UiIdle
    /\ NoMerge
    /\ catalog = NoCatalog
    /\ joined = NotJoined
    /\ \E n \in 0..MaxTextLen : est = [NoEstimate EXCEPT !.text = [i \in 1..n |-> "x"]]
    /\ convFile = NoFile
    /\ convBackup = NoFile
    /\ convRet = NoSave
    /\ convPrev = NoFile
    /\ chat = NoChat

NextTokens == Estimate

SpecTokens == InitTokens /\ [][NextTokens]_vars

(***************************************************************************)
(* SpecStore: conversations, one of them invalid, are saved under one name, *)
(* with and without a backup, while the file operations may fail.           *)
(***************************************************************************)
Conversations ==
    {<<[user |-> "First", ai |-> "Response1"]>>,
     <<[user |-> "Second", ai |-> "Response2"]>>,
     <<[user |-> "First", ai |-> "Response1"], [user |-> "Second", ai |-> "Response2"]>>,
     <<[wrong |-> "format"]>>}

InitStore ==
    /\ Constructed(CompareEnv)
    /\ pricing = NoPricingFile
    /\ CompareIdle
    /\ LogIdle
    /\ UiIdle
    /\ NoMerge
    /\ SideIdle

NextStore ==
    \E c \in Conversations, b \in BOOLEAN, io \in IoOutcomes : SaveConversation(c, b, io)

SpecStore == InitStore /\ [][NextStore]_vars

(***************************************************************************)
(* SpecChat: the chat flow, started with a key for any set of providers;    *)
(* questions are asked with any provider selected, with or without a key    *)
(* (the sidebar offers the providers that need a key too).                  *)
(***************************************************************************)
ChatEnvs ==
    {[openai |-> a, anthropic |-> b, google |-> c] : a \in {Key, NoValue},
                                                      b \in {Key, NoValue},
                                                      c \in {Key, NoValue}}

ChatResults ==
    UNION {CompletionResults(q, PROVIDERS[q].models[1]) : q \in ProviderKeys} \cup {NoOutcome}

InitChat ==
    /\ \E e \in ChatEnvs : Constructed(e)
    /\ pricing = NoPricingFile
    /\ CompareIdle
    /\ LogIdle
    /\ UiIdle
    /\ NoMerge
    /\ SideIdle

\* The models the settings can hold for a provider: its own, and the model
\* kept from the default provider when the selected one has no key (lines
\* 434-436 change the model only when the provider has models to offer)
ChatModels(q) == {PROVIDERS[q].models[k] : k \in 1..2} \cup {PROVIDERS["openai"].models[1]}

NextChat ==
    \E q \in ProviderKeys :
        \E m \in ChatModels(q) :
            \E r1 \in CompletionResults(q, m), r2 \in ChatResults :
                Ask(q, m, r1, r2)

SpecChat == InitChat /\ [][NextChat]_vars

(***************************************************************************)
(* SpecLabels: comparisons over lists of combos as long as the list of      *)
(* labels and up to ExtraCombos longer, with and without the pricing file.  *)
(* The combos are OpenAI's, which has a key, and Anthropic's, which has     *)
(* none, in turn; the calls of OpenAI succeed; of the orders of the shuffle *)
(* the first and its reverse are followed.                                  *)
(***************************************************************************)
ExtraCombos == 2

LabelCounts ==
    {2, Len(BLIND_LABELS)} \cup ((Len(BLIND_LABELS) + 1)..(Len(BLIND_LABELS) + ExtraCombos))

LabelCombos(n) ==
    [i \in 1..n |-> IF i % 2 = 1 THEN [provider |-> "openai", model |-> "gpt-4o-mini"]
                    ELSE [provider |-> "anthropic", model |-> "claude-3-haiku-20240307"]]

LabelResults ==
    {Returned("Test response")}
        \cup CompletionResults("anthropic", "claude-3-haiku-20240307")

LabelOrders(n) == {[i \in 1..n |-> i], [i \in 1..n |-> n + 1 - i]}

InitLabels ==
    /\ Constructed(CompareEnv)
    /\ pricing \in {NoPricingFile, PricingFile(<<>>)}
    /\ CompareIdle
    /\ LogIdle
    /\ UiIdle
    /\ NoMerge
    /\ SideIdle

NextLabels ==
    \/ \E n \in LabelCounts : StartCompare("Why is the sky blue?", LabelCombos(n), TRUE, "")
    \/ \E r \in LabelResults : CollectItem(r)
    \/ \E o \in LabelOrders(Len(cmpItems)) : FinishCompare(o)
    \/ ReturnCompare

SpecLabels == InitLabels /\ [][NextLabels]_vars

TypeOK ==
    /\ pc \in {"idle", "retry", "done"}
    /\ op \in {"none", "complete", "fallback"}
    /\ phase \in {"none", "primary", "fallback"}
    /\ attempt \in 0..MaxRetriesBound
    /\ available \in [ProviderKeys -> BOOLEAN]

(***************************************************************************)
(* Reading the trace.                                                       *)
(***************************************************************************)
IsCall(e) == e.ev = "call"

IsPrimary(e) == e.phase = "primary"

IsFallback(e) == e.phase = "fallback"

Calls == SelectSeq(trace, IsCall)

AllCallsAre(k) == Calls # <<>> /\ \A i \in 1..Len(Calls) : Calls[i].kind = k

\* A top-level get_completion invocation is running or has just ended.
InComplete == op = "complete"

RouterErrors ==
    {"UnknownProvider", "ProviderUnavailable", "ModelNotSupported", "RateLimited",
     "InvalidCredential", "RequestTimeout", "UpstreamError"}

\* n rate-limited attempts of r: a call each, and a wait of 2^attempt x 2
\* seconds after every attempt but the final one.
RECURSIVE RateLimitTrace(_, _, _)
RateLimitTrace(n, r, name) ==
    IF n = 0 THEN <<>>
    ELSE RateLimitTrace(n - 1, r, name)
            \o <<CallEvent("primary", name, "rate_limit", "")>>
            \o (IF n - 1 < r - 1 THEN <<SleepEvent("primary", (2 ^ (n - 1)) * 2)>> ELSE <<>>)

\* C1: while every outbound attempt of a complete invocation has failed with
\* a rate limit, the invocation has waited 2, 4, 8, ... seconds after each
\* attempt but the final one; it ends after exactly maxRetries calls, with no
\* wait after the last, by raising RateLimited.
C1_RateLimitBackoff ==
    (InComplete /\ AllCallsAre("rate_limit")) =>
        LET n == Len(Calls)
            r == cur.max_retries
        IN /\ n <= r
           /\ trace = RateLimitTrace(n, r, cur.model_name)
           /\ pc = "retry" => n < r
           /\ pc = "done" =>
                /\ n = r
                /\ ret = Raised("RateLimited", <<"Rate limit exceeded for", cur.provider>>)

C1_Witness ==
    /\ InComplete /\ pc = "done" /\ AllCallsAre("rate_limit")
    /\ cur.max_retries = 4
    /\ Len(trace) = 7
    /\ trace[6].secs = 8
    /\ ret.error = "RateLimited"

\* C2: a credential failure at any attempt ends the invocation at once with
\* InvalidCredential: the failed call is the last event (no later call, no
\* wait), whatever maxRetries is and whatever failures came before.
C2_CredentialFailsFast ==
    InComplete =>
        \A i \in 1..Len(trace) :
            (trace[i].ev = "call" /\ trace[i].kind = "credential") =>
                /\ i = Len(trace)
                /\ pc = "done"
                /\ ret = Raised("InvalidCredential", <<"Invalid API key for", cur.provider>>)

C2_Witness ==
    /\ InComplete /\ pc = "done"
    /\ cur.max_retries = 4
    /\ Len(Calls) = 3
    /\ Calls[1].kind = "rate_limit" /\ Calls[2].kind = "other" /\ Calls[3].kind = "credential"
    /\ ret.error = "InvalidCredential"

\* C3: while every outbound attempt of a complete invocation has failed with
\* a timeout, the invocation has not waited at all; it ends after exactly
\* maxRetries calls by raising RequestTimeout.
C3_TimeoutRetriesImmediately ==
    (InComplete /\ AllCallsAre("timeout")) =>
        LET n == Len(Calls)
            r == cur.max_retries
        IN /\ n <= r
           /\ trace = [i \in 1..n |-> CallEvent("primary", cur.model_name, "timeout", "")]
           /\ pc = "retry" => n < r
           /\ pc = "done" =>
                /\ n = r
                /\ ret = Raised("RequestTimeout", <<"Request timeout for", cur.provider>>)

C3_Witness ==
    /\ InComplete /\ pc = "done" /\ AllCallsAre("timeout")
    /\ cur.max_retries = 3
    /\ Len(trace) = 3
    /\ ret.error = "RequestTimeout"

\* The message names no rate limit, credential or timeout, in any letter case.
PlainMessage(msg) ==
    \A i \in 1..Len(msg) : msg[i] \notin {"Rate Limit", "API Key", "unauthorized", "Timeout"}

\* C4: an attempt that fails with a message that is neither rate-limit,
\* credential nor timeout: if it is not the final attempt, complete waits 1
\* second and goes on with the next attempt; if it is the final attempt
\* (attempt = maxRetries - 1), complete raises UpstreamError and the raised
\* message contains the original message.
C4_OtherFailure ==
    [][\A o \in CallOutcomes :
          (InComplete /\ Attempt(o) /\ ~o.ok /\ PlainMessage(o.msg)) =>
              LET call == CallEvent("primary", cur.model_name, "other", "") IN
              IF attempt < cur.max_retries - 1
              THEN /\ trace' = trace \o <<call, SleepEvent("primary", 1)>>
                   /\ pc' = "retry"
                   /\ attempt' = attempt + 1
                   /\ ret' = NoOutcome
              ELSE /\ trace' = Append(trace, call)
                   /\ pc' = "done"
                   /\ ret'.kind = "raise"
                   /\ ret'.error = "UpstreamError"
                   /\ ContainsSeq(ret'.msg, o.msg)]_vars

C4_Witness ==
    /\ InComplete /\ pc = "done" /\ AllCallsAre("other")
    /\ cur.max_retries = 3
    /\ Len(trace) = 5
    /\ trace[2].secs = 1 /\ trace[4].secs = 1
    /\ ret.error = "UpstreamError"
    /\ ContainsSeq(ret.msg, <<"Boom", "Boom">>)

\* C5: for every sequence of call outcomes a complete invocation makes at
\* most maxRetries outbound calls and must end with the maxRetries-th; a
\* successful call is the last event and its text is what is returned; once
\* a result or an error is out, no further call is made.
C5_State ==
    InComplete =>
        /\ Len(Calls) <= cur.max_retries
        /\ pc = "retry" => (Len(Calls) = attempt /\ attempt < cur.max_retries /\ ret = NoOutcome)
        /\ \A i \in 1..Len(trace) :
              (trace[i].ev = "call" /\ trace[i].kind = "ok") =>
                  /\ i = Len(trace)
                  /\ pc = "done"
                  /\ ret = Returned(trace[i].text)

C5_BoundedCalls ==
    [][/\ C5_State'
       /\ (InComplete /\ pc = "retry") => Len(Calls') = Len(Calls) + 1
       /\ (InComplete /\ pc = "done") => (pc' = "idle" /\ trace' = <<>>)]_vars

C5_Witness ==
    /\ InComplete /\ pc = "done"
    /\ cur.max_retries = 4
    /\ Len(Calls) = 3
    /\ Calls[1].kind = "timeout" /\ Calls[2].kind = "rate_limit" /\ Calls[3].kind = "ok"
    /\ ret = Returned("Other response")

\* C6: a complete invocation whose input passes validation ends, for every
\* maxRetries (0 included), either by returning the text of a successful
\* outbound call or by raising one of the typed router errors; it never
\* returns null.
C6_NoSilentNone ==
    (InComplete /\ pc = "done") =>
        \/ /\ ret.kind = "return"
           /\ Calls # <<>>
           /\ Calls[Len(Calls)].kind = "ok"
           /\ ret.text = Calls[Len(Calls)].text
        \/ /\ ret.kind = "raise"
           /\ ret.error \in RouterErrors

AllEnvKeys == {PROVIDERS[p].env_key : p \in ProviderKeys}

\* C7: for every provider whose credential variable was unset or blank when
\* the service was constructed, availableModels is the empty list, and a
\* complete invocation for it, with any model argument, raises
\* ProviderUnavailable naming that provider's variable and no other, without
\* any outbound call.
C7_UnavailableProvider ==
    \A p \in ProviderKeys :
        blankAtInit[p] =>
            /\ GetAvailableModels(p) = <<>>
            /\ (InComplete /\ cur.provider = p) =>
                  /\ pc = "done"
                  /\ trace = <<>>
                  /\ ret.kind = "raise"
                  /\ ret.error = "ProviderUnavailable"
                  /\ Range(ret.msg) \cap AllEnvKeys = {PROVIDERS[p].env_key}

C7_Witness ==
    /\ blankAtInit["google"] /\ env["google"] = <<" ">>
    /\ ~blankAtInit["openai"]
    /\ InComplete /\ pc = "done"
    /\ cur.provider = "google" /\ cur.model = "gemini-2.5-pro"
    /\ ret.error = "ProviderUnavailable"
    /\ Contains(ret.msg, "GEMINI_API_KEY")

\* C8: complete checks provider-known, then provider-available, then
\* model-in-declared-list; the first check that fails alone decides the error
\* (UnknownProvider, ProviderUnavailable, or ModelNotSupported listing every
\* declared model of the provider), and then no outbound call is made; when
\* all three pass, none of these errors is raised.
C8_ValidationOrder ==
    InComplete =>
        LET p == cur.provider
            m == cur.model
            rejected(e) == pc = "done" /\ trace = <<>> /\ ret.kind = "raise" /\ ret.error = e
        IN
        IF p \notin {"openai", "anthropic", "google"}
        THEN rejected("UnknownProvider")
        ELSE IF ~available[p]
        THEN rejected("ProviderUnavailable")
        ELSE IF m \notin Range(PROVIDERS[p].models)
        THEN /\ rejected("ModelNotSupported")
             /\ \A d \in Range(PROVIDERS[p].models) : Contains(ret.msg, d)
        ELSE ret.error \notin {"UnknownProvider", "ProviderUnavailable", "ModelNotSupported"}

C8_Witness ==
    /\ InComplete /\ pc = "done"
    /\ cur.provider = "openai" /\ ~available["openai"]
    /\ cur.model = "invalid-model"
    /\ ret.error = "ProviderUnavailable"

PrimaryCalls == SelectSeq(Calls, IsPrimary)

FallbackCalls == SelectSeq(Calls, IsFallback)

InFallbackOp == op = "fallback"

C10_FallbackNeverRaises ==
    InFallbackOp =>
        /\ ret.kind # "raise"
        /\ Len(SelectSeq(invoked, IsFallback)) <= 1
        /\ Len(SelectSeq(invoked, IsPrimary)) = 1
        /\ pc = "done" =>
              /\ ret.kind \in {"return", "return_none"}
              /\ (outcome.primary.kind = "raise" /\ outcome.fallback.kind = "return")
                    => (ret = outcome.fallback /\ FallbackCalls # <<>>
                        /\ ret.text = FallbackCalls[Len(FallbackCalls)].text)
              /\ ret.kind = "return_none"
                    <=> (outcome.primary.kind = "raise" /\ outcome.fallback.kind = "raise")

C10_Witness ==
    /\ InFallbackOp /\ pc = "done"
    /\ outcome.primary.error = "ModelNotSupported"
    /\ outcome.fallback.error = "UpstreamError"
    /\ ret = ReturnedNone

(***************************************************************************)
(* C11: once a service has been constructed, the availability flags never   *)
(* change for the rest of the process, whatever happens to the environment  *)
(* and however many further services are constructed.                       *)
(***************************************************************************)
C11_AvailabilityFixed == [][available' = available]_vars

(***************************************************************************)
(* C12: a comparison never aborts: it ends by returning one item per combo, *)
(* in which a combo whose router call raised has status "error", the raised *)
(* message and an empty text, and any other combo has status "ok" and the   *)
(* text of its call.                                                        *)
(***************************************************************************)
C12_CompareNeverAborts == cmpPc = "done" => cmpRet.kind = "return"

(***************************************************************************)
(* C13: what a comparison returns is a permutation of the collected items;  *)
(* the item at position i carries the i-th letter of A..Z, so the labels    *)
(* are the first n letters, each once; and the mapping sends each label to  *)
(* the provider and model of the item that carries it.                      *)
(***************************************************************************)
Unlabelled(item) == [item EXCEPT !.blind_label = ""]

C13_BlindLabels ==
    (cmpPc = "done" /\ cmpRet.kind = "return") =>
        LET n == Len(cmpItems)
            res == cmpRet.results
        IN /\ Len(res) = n
           /\ \E q \in Permutations(1..n) : \A i \in 1..n : Unlabelled(res[i]) = cmpItems[q[i]]
           /\ \A i \in 1..n : res[i].blind_label = BLIND_LABELS[i]
           /\ \A i, j \in 1..n : res[i].blind_label = res[j].blind_label => i = j
           /\ DOMAIN cmpRet.mapping = {BLIND_LABELS[i] : i \in 1..n}
           /\ \A i \in 1..n :
                cmpRet.mapping[res[i].blind_label]
                    = [provider |-> res[i].provider, model |-> res[i].model]

C13_Witness ==
    /\ cmpPc = "done"
    /\ cmpRet.kind = "return"
    /\ Len(cmpRet.results) = 3
    /\ cmpRet.order = <<3, 1, 2>>
    /\ cmpItems[1].provider = "openai"
    /\ cmpItems[3].provider = "anthropic"
    /\ cmpRet.mapping["A"].provider = "anthropic"

(***************************************************************************)
(* C14: the shuffle is rolled anew in every invocation: whenever a          *)
(* comparison reaches its shuffle, whatever the previous invocation chose,  *)
(* every permutation of its items can be the order it returns.              *)
(***************************************************************************)
C14_EveryOrderPossible ==
    cmpPc = "shuffle" =>
        \A q \in Permutations(1..Len(cmpItems)) :
            LET order == [i \in 1..Len(cmpItems) |-> q[i]] IN
            ENABLED (FinishCompare(order) /\ cmpRet'.order = order)

C14_Witness ==
    /\ cmpPc = "done"
    /\ cmpRet.kind = "return"
    /\ lastOrder = <<2, 1, 3>>
    /\ cmpRet.order = <<3, 2, 1>>

(***************************************************************************)
(* C15: whatever the interleaving of concurrent appenders, once they have   *)
(* returned the log consists of the complete newline-terminated lines of    *)
(* the appended records, and no line holds parts of two records.            *)
(***************************************************************************)
C15_WholeRecords ==
    Busy = {} =>
        LET lines == SplitLines(log.data)
            n == Len(appended)
        IN /\ Len(lines) = n
           /\ n > 0 => log.data[Len(log.data)] = LF
           /\ \E q \in Permutations(1..n) : \A i \in 1..n : lines[i] = Dumps(appended[q[i]])

(***************************************************************************)
(* C17: after records have been appended to a log that holds nothing else,  *)
(* reading the log returns those records, in the order of their appends and *)
(* equal in every field, whatever their shape.                              *)
(***************************************************************************)
RECURSIVE JsonLines(_)
JsonLines(records) ==
    IF records = <<>> THEN <<>> ELSE JsonLine(Head(records)) \o JsonLines(Tail(records))

C17_RoundTrip ==
    (rows.done /\ Busy = {} /\ log.data = JsonLines(appended)) => rows.out = appended

C17_Witness ==
    /\ rows.done
    /\ Busy = {}
    /\ Len(appended) = 2
    /\ log.data = JsonLines(appended)
    /\ appended[1].e[1].v = JStr(<<"score">>)
    /\ appended[2].e[1].v = JStr(<<"preference">>)
    /\ rows.out[1].e[3].v = JStr(<<"a", LF, Q, "b", BS, "{">>)

(***************************************************************************)
(* C18: reading returns exactly the records of the log, in file order: a    *)
(* missing file gives the empty list; empty, blank and corrupt lines are    *)
(* skipped and change nothing for the records before and after them; and    *)
(* while an append is under way its record is returned only if its whole    *)
(* text is in the file, never in part.                                      *)
(***************************************************************************)
InFlight ==
    IF writers["w1"].busy /\ writers["w1"].pending = <<LF>>
    THEN <<writers["w1"].rec>> ELSE <<>>

C18_ReadSkipsDamage ==
    rows.done =>
        /\ rows.out = appended \o InFlight
        /\ ~log.exists => rows.out = <<>>

C18_Witness ==
    /\ rows.done
    /\ writers["w1"].busy
    /\ Len(writers["w1"].pending) > 1
    /\ writers["w1"].cut
    /\ Len(appended) = 1
    /\ Len(rows.out) = 1
    /\ Len(SplitLines(log.data)) = 3

(***************************************************************************)
(* C16: the log is append-only: whatever the compare view does (run a       *)
(* comparison, serve the cached one, save scores, save preferences, save    *)
(* scores again), with appends that succeed or fail, the content of the log *)
(* before the step is a prefix of its content after it, and the log is      *)
(* never removed.                                                           *)
(***************************************************************************)
IsPrefix(a, b) == Len(a) <= Len(b) /\ SubSeq(b, 1, Len(a)) = a

C19_NoSilentDrop == appRet.dropped => appRet.ret = "error"

(***************************************************************************)
(* C20: the merge yields each result row exactly once and in order, joined  *)
(* with a score of its (run id, prompt fingerprint, blind label) that has   *)
(* the greatest timestamp, or with nulls if the triple has no score, so a   *)
(* superseded score never shows; merging again gives the same rows; and     *)
(* after a newer score is appended for one triple, the rows of every other  *)
(* triple are as before and the rows of that triple carry the new score.    *)
(***************************************************************************)
ScoresOf(result) == {i \in 1..Len(mScores) : KeyOf(mScores[i]) = KeyOf(result)}

IsLatestOf(row, result) ==
    IF ScoresOf(result) = {} THEN row = Unscored(result)
    ELSE \E i \in ScoresOf(result) :
            /\ \A j \in ScoresOf(result) : mScores[j].timestamp <= mScores[i].timestamp
            /\ row = Joined(result, mScores[i])

C20_State ==
    merged.done =>
        /\ Len(merged.rows) = Len(mResults)
        /\ \A i \in 1..Len(mResults) : IsLatestOf(merged.rows[i], mResults[i])
        /\ added # <<>> =>
              \A i \in 1..Len(mResults) :
                  IF KeyOf(mResults[i]) = KeyOf(added[1])
                  THEN merged.rows[i] = Joined(mResults[i], added[1])
                  ELSE merged.rows[i] = before[i]

HasField(rec, k) == \E i \in 1..Len(rec.e) : rec.e[i].k = k

Field(rec, k) == rec.e[CHOOSE i \in 1..Len(rec.e) : rec.e[i].k = k].v

PrefsSaved(choice) ==
    LET results == session.result.results
        pairs == PairsOf(Len(results))
        new == SubSeq(appended', Len(appended) + 1, Len(appended'))
        A(k) == results[pairs[k][1]].blind_label
        B(k) == results[pairs[k][2]].blind_label
        IsOf(k, rec) ==
            /\ Field(rec, <<"type">>) = JStr(<<"preference">>)
            /\ Field(rec, <<"pair">>) = JList(<<JStr(Text(A(k))), JStr(Text(B(k)))>>)
        Count(k) == Cardinality({i \in 1..Len(new) : IsOf(k, new[i])})
    IN /\ \A k \in 1..Len(pairs) :
             /\ choice[k] = TieSkip => Count(k) = 0
             /\ (choice[k] # TieSkip /\ appRet'.ret = "ok") => Count(k) = 1
             /\ Count(k) <= 1
       /\ \A i \in 1..Len(new) :
             \E k \in 1..Len(pairs) :
                 /\ IsOf(k, new[i])
                 /\ \E w \in {A(k), B(k)} :
                       /\ Field(new[i], <<"winner_label">>) = JStr(Text(w))
                       /\ choice[k] = Wins(w)

C21_SavePreferences ==
    [][(appRet'.op = "preferences" /\ ops' = ops + 1) => PrefsSaved(appRet'.form)]_vars

IsPreference(rec, a, b, w) ==
    /\ Field(rec, <<"type">>) = JStr(<<"preference">>)
    /\ Field(rec, <<"pair">>) = JList(<<JStr(<<a>>), JStr(<<b>>)>>)
    /\ Field(rec, <<"winner_label">>) = JStr(<<w>>)

C21_Witness ==
    /\ appRet.op = "preferences"
    /\ appRet.ret = "ok"
    /\ appRet.form = <<TieSkip, Wins("C"), Wins("B")>>
    /\ Len(appended) = 5
    /\ IsPreference(appended[4], "A", "C", "C")
    /\ IsPreference(appended[5], "B", "C", "B")

(***************************************************************************)
(* C22: every record appended to the log is a result, a score or a          *)
(* preference record and has a version, a type, a timestamp, a run          *)
(* identifier and a prompt fingerprint.                                     *)
(***************************************************************************)
Envelope == {<<"version">>, <<"type">>, <<"timestamp">>, <<"run_id">>, <<"prompt_id">>}

Shapes == {JStr(<<"result">>), JStr(<<"score">>), JStr(<<"preference">>)}

C22_RecordShapes ==
    \A i \in 1..Len(appended) :
        /\ \A k \in Envelope : HasField(appended[i], k)
        /\ Field(appended[i], <<"type">>) \in Shapes

(***************************************************************************)
(* C23: two comparisons that persist result records have different run      *)
(* identifiers, whenever and in whatever session they are run: no two       *)
(* result records of the log have the same run identifier, prompt           *)
(* fingerprint and blind label.  (The handlers of two sessions write to the *)
(* same log and read the same clock; two runs at one value of now are two   *)
(* runs that read the same time.)                                           *)
(***************************************************************************)
IsResult(rec) == Field(rec, <<"type">>) = JStr(<<"result">>)

RecordKey(rec) ==
    <<Field(rec, <<"run_id">>), Field(rec, <<"prompt_id">>), Field(rec, <<"blind_label">>)>>

C23_UniqueRunIds ==
    \A i, j \in 1..Len(appended) :
        (i < j /\ IsResult(appended[i]) /\ IsResult(appended[j])) =>
            RecordKey(appended[i]) # RecordKey(appended[j])

(***************************************************************************)
(* C24: a run whose prompt is a text of the catalog records the key of that *)
(* text in the index as its prompt fingerprint and is joined to the tags    *)
(* the index holds under that key; without a catalog the index is empty.    *)
(***************************************************************************)
C24_SameFingerprint ==
    /\ ~catalog.exists => BuildPromptIndex(catalog) = <<>>
    /\ (joined.done /\ \E i \in 1..Len(catalog.prompts) : catalog.prompts[i].text = joined.text) =>
          /\ joined.prompt_id = PromptKey(joined.text)
          /\ joined.tags = Some(BuildPromptIndex(catalog)[PromptKey(joined.text)].tags)

(***************************************************************************)
(* C25: when no combo of a comparison has a pricing entry (the entry is     *)
(* missing, the table is empty or the pricing file is absent), the cost     *)
(* estimate never raises: the comparison returns an item for every combo,   *)
(* each with an estimated cost of 0.                                        *)
(***************************************************************************)
Unpriced(combo) == ComposeModelKey(combo.provider, combo.model) \notin DOMAIN pricing.models

C25_UnpricedCostsNothing ==
    (cmpPc = "done" /\ \A i \in 1..Len(cmpArgs.combos) : Unpriced(cmpArgs.combos[i])) =>
        /\ cmpRet.kind = "return"
        /\ Len(cmpRet.results) = Len(cmpArgs.combos)
        /\ \A i \in 1..Len(cmpRet.results) : cmpRet.results[i].estimated_cost_usd = 0

(***************************************************************************)
(* C26: the token estimate of the empty text is 0; that of a text of n > 0  *)
(* characters is the greater of 1 and n / 4 rounded to the nearest integer  *)
(* (a half goes to the even neighbour, as round does), so it is at least 1, *)
(* 1 for 4 characters and 10 for 40.                                        *)
(***************************************************************************)
IsRounded(r, n, d) ==
    \/ 2 * r * d - 2 * n < d /\ 2 * n - 2 * r * d < d
    \/ (2 * r * d - 2 * n = d \/ 2 * n - 2 * r * d = d) /\ r % 2 = 0

C26_TokenEstimate ==
    est.done =>
        LET n == Len(est.text) IN
        /\ n = 0 => est.tokens = 0
        /\ n > 0 => /\ est.tokens >= 1
                    /\ \E r \in 0..n : IsRounded(r, n, 4) /\ est.tokens = Max(1, r)
        /\ n = 4 => est.tokens = 1
        /\ n = 40 => est.tokens = 10

C26_Witness ==
    /\ est.done
    /\ Len(est.text) = 10
    /\ est.tokens = 2

(***************************************************************************)
(* C27: after save_conversation with a backup, on a conversation that was   *)
(* saved before: if it returned success the file holds the new conversation *)
(* and there is no backup file; if it returned failure the file is what it  *)
(* was before the call.                                                     *)
(***************************************************************************)
SavedBefore ==
    /\ convPrev.exists
    /\ \E c \in Conversations : ValidateConversation(c) /\ convPrev.data = ConversationJson(c)

C27_SaveWithBackup ==
    (convRet.called /\ convRet.create_backup /\ SavedBefore) =>
        IF convRet.ok
        THEN /\ convFile = [exists |-> TRUE, data |-> ConversationJson(convRet.conversation)]
             /\ ~convBackup.exists
        ELSE convFile = convPrev

(***************************************************************************)
(* C28: when the call to the selected provider fails and some other         *)
(* provider is available, one fallback call is made, to the first available *)
(* provider in declaration order other than the selected one and to its     *)
(* first model; when there is no such provider, or the fallback fails too,  *)
(* the answer is the apology.                                               *)
(***************************************************************************)
C28_ChatFallback ==
    (chat.asked /\ chat.calls[1].kind = "raise") =>
        LET others == SelectSeq(ProviderOrder,
                                LAMBDA q : available[q] /\ q # chat.calls[1].provider)
        IN IF others # <<>>
           THEN /\ Len(chat.calls) = 2
                /\ chat.calls[2].provider = others[1]
                /\ chat.calls[2].model = PROVIDERS[others[1]].models[1]
                /\ chat.calls[2].kind = "raise" => chat.answer = Apology
           ELSE /\ Len(chat.calls) = 1
                /\ chat.answer = Apology

(***************************************************************************)
(* C29: in a complete invocation a failing attempt is handled as the first  *)
(* kind, in the order rate limit, credential, timeout, other, that its      *)
(* message matches; and when the last attempt fails with a retriable kind   *)
(* the error raised is the one of that kind (RateLimited, RequestTimeout,   *)
(* UpstreamError), whatever the failures of the earlier attempts were.      *)
(***************************************************************************)
Names(msg, words) == \E i \in 1..Len(msg) : msg[i] \in words

FirstKind(msg) ==
    IF Names(msg, {"Rate Limit"}) THEN "rate_limit"
    ELSE IF Names(msg, {"API Key", "unauthorized"}) THEN "credential"
    ELSE IF Names(msg, {"Timeout"}) THEN "timeout"
    ELSE "other"

ErrorOfKind(kind) ==
    CASE kind = "rate_limit" -> "RateLimited"
      [] kind = "credential" -> "InvalidCredential"
      [] kind = "timeout" -> "RequestTimeout"
      [] OTHER -> "UpstreamError"

C29_ClassifiedInOrder ==
    [][\A o \in CallOutcomes :
          (InComplete /\ Attempt(o) /\ ~o.ok) =>
              /\ trace'[Len(trace) + 1] =
                    CallEvent("primary", cur.model_name, FirstKind(o.msg), "")
              /\ (attempt = cur.max_retries - 1 \/ FirstKind(o.msg) = "credential") =>
                    /\ pc' = "done"
                    /\ ret'.kind = "raise"
                    /\ ret'.error = ErrorOfKind(FirstKind(o.msg))]_vars

C29_Witness ==
    /\ InComplete /\ pc = "done"
    /\ cur.max_retries = 3
    /\ Len(Calls) = 3
    /\ Calls[1].kind = "other" /\ Calls[2].kind = "rate_limit" /\ Calls[3].kind = "timeout"
    /\ ret.error = "RequestTimeout"

(***************************************************************************)
(* C30: a comparison over more combos than there are labels makes the       *)
(* router call of every combo and collects its item, and only then raises,  *)
(* at the assignment of the labels, returning nothing.                      *)
(***************************************************************************)
C30_LabelsRunOut ==
    (cmpPc = "done" /\ Len(cmpArgs.combos) > Len(BLIND_LABELS)) =>
        /\ Len(cmpItems) = Len(cmpArgs.combos)
        /\ cmpRet.kind = "raise"
        /\ cmpRet.error = "IndexError"
        /\ cmpRet.results = <<>>

====
